---------------------------- MODULE Spec2Model ----------------------------
(***************************************************************************)
(* Local-field algebra of the SU(2) + scalar lattice code (su2u1.c,        *)
(* magfield.c, measure.c), in exact integer arithmetic.                    *)
(*                                                                         *)
(* Conventions.  C arrays are functions on 0..n-1, so that u[0], u[1], ... *)
(* read as in the source.  A double is an integer: every input set below   *)
(* is chosen so that each 0.5*x, x/y and sqrt(x) the code evaluates is an  *)
(* exact integer; Div and Sqrt are undefined (TLC stops) on any other      *)
(* argument, so an inexact value can never be used silently.               *)
(***************************************************************************)
EXTENDS Integers, Sequences, FiniteSets, TLC

\* degrees of freedom per site for different fields
SU2DB == 4
SU2LINK == 4
SU2TRIP == 3

VARIABLES
    lat,        \* the lattice: dim, L, sites, next, prev
    build,      \* the compile-time flags: NHIGGS, TRIPLET, U1, SINGLET
    fld,        \* the fields: su2link, u1link, su2doublet, doublet2, su2triplet, singlet
    fldOld,     \* the fields before the last update of a single variable
    upd,        \* the variable last updated: kind, site, dir
    pc,         \* where the run is: start, measured, updated, remeasured
    meas,       \* what measure() last accumulated: action, wilson, mag_charge, ...
    measOld,    \* the same before the last update
    dS,         \* the change of the local action the update computed
    rot,        \* operands and result of the matrix-algebra unit: u1, u2, old, mode, pc
    mag,        \* a magnetic field evaluated on its own: site, dir, B, pc
    call        \* a routine called on its own: its name fn, its arguments, its output res

vars == <<lat, build, fld, fldOld, upd, pc, meas, measOld, dS, rot, mag, call>>

(***************************************************************************)
(* Arithmetic helpers.                                                     *)
(***************************************************************************)
\* a C array initialiser {a, b, ...} as a function on 0..n-1
Vec(t) == [k \in 0..(Len(t) - 1) |-> t[k + 1]]

\* n / d for doubles, defined only where the quotient is exact
Div(n, d) == CASE d # 0 /\ (IF n >= 0 THEN n ELSE -n) % (IF d > 0 THEN d ELSE -d) = 0 ->
                    (IF (n >= 0) = (d > 0) THEN 1 ELSE -1)
                    * ((IF n >= 0 THEN n ELSE -n) \div (IF d > 0 THEN d ELSE -d))

\* 0.5 * x
Half(x) == Div(x, 2)

\* sqrt(x), defined only on perfect squares
Sqrt(x) == CHOOSE r \in 0..x : r * r = x

\* sin and cos of an angle held as a whole number of quarter turns (a = k * pi/2)
sin(a) == Vec(<<0, 1, 0, -1>>)[a % 4]
cos(a) == Vec(<<1, 0, -1, 0>>)[a % 4]

\* sum of fn[x] over x \in S
RECURSIVE SumOn(_, _)
SumOn(fn, S) == IF S = {} THEN 0
                ELSE LET x == CHOOSE y \in S : TRUE
                     IN fn[x] + SumOn(fn, S \ {x})

(***************************************************************************)
(* su2u1.c: compact-matrix algebra.                                        *)
(***************************************************************************)
\* calculate the determinant, or norm, of a matrix in our SU(2) parametrization
su2sqr(u) == u[0]*u[0] + u[1]*u[1] + u[2]*u[2] + u[3]*u[3]

\* su2rot with the sign of one cross term of new2 flipped
su2rot_signslip(u1, u2) ==
    Vec(<< u1[0]*u2[0] - u1[1]*u2[1] - u1[2]*u2[2] - u1[3]*u2[3],
           u1[1]*u2[0] + u1[0]*u2[1] + u1[3]*u2[2] + u1[2]*u2[3],
           u1[2]*u2[0] - u1[3]*u2[1] + u1[0]*u2[2] + u1[1]*u2[3],
           u1[3]*u2[0] + u1[2]*u2[1] - u1[1]*u2[2] + u1[0]*u2[3] >>)

\* rotate U1 from the right by U2: the new value of U1 (U1 <- U1.U2)
su2rot(u1, u2) ==
    Vec(<< u1[0]*u2[0] - u1[1]*u2[1] - u1[2]*u2[2] - u1[3]*u2[3],
           u1[1]*u2[0] + u1[0]*u2[1] + u1[3]*u2[2] - u1[2]*u2[3],
           u1[2]*u2[0] - u1[3]*u2[1] + u1[0]*u2[2] + u1[1]*u2[3],
           u1[3]*u2[0] + u1[2]*u2[1] - u1[1]*u2[2] + u1[0]*u2[3] >>)

\* the callers' conjugation loop: for (k=1; k<SU2LINK; k++) u[k] = -1.0 * u[k]
su2conj(u) == [k \in 0..(SU2LINK - 1) |-> IF k >= 1 THEN (-1) * u[k] ELSE u[k]]

(***************************************************************************)
(* The lattice (struct lattice): dim, side lengths L, number of sites and  *)
(* the neighbour tables next[i][dir], prev[i][dir] of a periodic lattice.  *)
(* Site i has coordinates x_d = (i / (L_0 ... L_{d-1})) % L_d.             *)
(***************************************************************************)
RECURSIVE Stride(_, _)
Stride(L, d) == IF d = 0 THEN 1 ELSE L[d - 1] * Stride(L, d - 1)

Coord(L, i, d) == (i \div Stride(L, d)) % L[d]

\* the site reached from i by dx steps in direction d, periodically
Shift(L, i, d, dx) ==
    i + Stride(L, d) * (((Coord(L, i, d) + dx + L[d]) % L[d]) - Coord(L, i, d))

Layout(L) ==
    LET D == Len(L)
        LL == Vec(L)
        vol == Stride(LL, D)
    IN [ dim   |-> D,
         L     |-> LL,
         sites |-> vol,
         next  |-> [i \in 0..(vol - 1) |-> [d \in 0..(D - 1) |-> Shift(LL, i, d, 1)]],
         prev  |-> [i \in 0..(vol - 1) |-> [d \in 0..(D - 1) |-> Shift(LL, i, d, -1)]] ]

Sites(l) == 0..(l.sites - 1)
Dirs(l) == 0..(l.dim - 1)

(***************************************************************************)
(* su2u1.c: plaquettes and staples.                                        *)
(***************************************************************************)
\* Re Tr U1.U2.U3^+.U4^+
su2trace4(u1, u2, u3, u4) ==
    2 * (
        u1[0]*u2[0]*u3[0]*u4[0] - u1[1]*u2[1]*u3[0]*u4[0] - u1[2]*u2[2]*u3[0]*u4[0] -
        u1[3]*u2[3]*u3[0]*u4[0] + u1[1]*u2[0]*u3[1]*u4[0] + u1[0]*u2[1]*u3[1]*u4[0] +
        u1[3]*u2[2]*u3[1]*u4[0] - u1[2]*u2[3]*u3[1]*u4[0] + u1[2]*u2[0]*u3[2]*u4[0] -
        u1[3]*u2[1]*u3[2]*u4[0] + u1[0]*u2[2]*u3[2]*u4[0] + u1[1]*u2[3]*u3[2]*u4[0] +
        u1[3]*u2[0]*u3[3]*u4[0] + u1[2]*u2[1]*u3[3]*u4[0] - u1[1]*u2[2]*u3[3]*u4[0] +
        u1[0]*u2[3]*u3[3]*u4[0] + u1[1]*u2[0]*u3[0]*u4[1] + u1[0]*u2[1]*u3[0]*u4[1] +
        u1[3]*u2[2]*u3[0]*u4[1] - u1[2]*u2[3]*u3[0]*u4[1] - u1[0]*u2[0]*u3[1]*u4[1] +
        u1[1]*u2[1]*u3[1]*u4[1] + u1[2]*u2[2]*u3[1]*u4[1] + u1[3]*u2[3]*u3[1]*u4[1] -
        u1[3]*u2[0]*u3[2]*u4[1] - u1[2]*u2[1]*u3[2]*u4[1] + u1[1]*u2[2]*u3[2]*u4[1] -
        u1[0]*u2[3]*u3[2]*u4[1] + u1[2]*u2[0]*u3[3]*u4[1] - u1[3]*u2[1]*u3[3]*u4[1] +
        u1[0]*u2[2]*u3[3]*u4[1] + u1[1]*u2[3]*u3[3]*u4[1] + u1[2]*u2[0]*u3[0]*u4[2] -
        u1[3]*u2[1]*u3[0]*u4[2] + u1[0]*u2[2]*u3[0]*u4[2] + u1[1]*u2[3]*u3[0]*u4[2] +
        u1[3]*u2[0]*u3[1]*u4[2] + u1[2]*u2[1]*u3[1]*u4[2] - u1[1]*u2[2]*u3[1]*u4[2] +
        u1[0]*u2[3]*u3[1]*u4[2] - u1[0]*u2[0]*u3[2]*u4[2] + u1[1]*u2[1]*u3[2]*u4[2] +
        u1[2]*u2[2]*u3[2]*u4[2] + u1[3]*u2[3]*u3[2]*u4[2] - u1[1]*u2[0]*u3[3]*u4[2] -
        u1[0]*u2[1]*u3[3]*u4[2] - u1[3]*u2[2]*u3[3]*u4[2] + u1[2]*u2[3]*u3[3]*u4[2] +
        u1[3]*u2[0]*u3[0]*u4[3] + u1[2]*u2[1]*u3[0]*u4[3] - u1[1]*u2[2]*u3[0]*u4[3] +
        u1[0]*u2[3]*u3[0]*u4[3] - u1[2]*u2[0]*u3[1]*u4[3] + u1[3]*u2[1]*u3[1]*u4[3] -
        u1[0]*u2[2]*u3[1]*u4[3] - u1[1]*u2[3]*u3[1]*u4[3] + u1[1]*u2[0]*u3[2]*u4[3] +
        u1[0]*u2[1]*u3[2]*u4[3] + u1[3]*u2[2]*u3[2]*u4[3] - u1[2]*u2[3]*u3[2]*u4[3] -
        u1[0]*u2[0]*u3[3]*u4[3] + u1[1]*u2[1]*u3[3]*u4[3] + u1[2]*u2[2]*u3[3]*u4[3] +
        u1[3]*u2[3]*u3[3]*u4[3] )

\* Re Tr U_mu(x) U_nu(x+mu) U_mu(x+nu)^+ U_nu(x)^+, mu = dir1, nu = dir2
su2ptrace(l, f, i, dir1, dir2) ==
    LET u1 == f.su2link[i][dir1]
        u2 == f.su2link[l.next[i][dir1]][dir2]
        u3 == f.su2link[l.next[i][dir2]][dir1]
        u4 == f.su2link[i][dir2]
    IN su2trace4(u1, u2, u3, u4)

\* the SU(2) plaquette as a matrix (what su2plaquette stores in u1)
su2plaquette(l, f, i, dir1, dir2) ==
    LET u1 == f.su2link[i][dir1]
        u2 == f.su2link[l.next[i][dir1]][dir2]
        u3 == su2conj(f.su2link[l.next[i][dir2]][dir1])
        u4 == su2conj(f.su2link[i][dir2])
    IN su2rot(u1, su2rot(u2, su2rot(u3, u4)))

\* untraced staple U1 U2^+ U3^+
su2staple_counterwise(u1, u2, u3) ==
    Vec(<<
        u1[0]*u2[0]*u3[0] + u1[1]*u2[1]*u3[0] + u1[2]*u2[2]*u3[0] + u1[3]*u2[3]*u3[0] +
        u1[1]*u2[0]*u3[1] - u1[0]*u2[1]*u3[1] - u1[3]*u2[2]*u3[1] + u1[2]*u2[3]*u3[1] +
        u1[2]*u2[0]*u3[2] + u1[3]*u2[1]*u3[2] - u1[0]*u2[2]*u3[2] - u1[1]*u2[3]*u3[2] +
        u1[3]*u2[0]*u3[3] - u1[2]*u2[1]*u3[3] + u1[1]*u2[2]*u3[3] - u1[0]*u2[3]*u3[3],
        u1[1]*u2[0]*u3[0] - u1[0]*u2[1]*u3[0] - u1[3]*u2[2]*u3[0] + u1[2]*u2[3]*u3[0] -
        u1[0]*u2[0]*u3[1] - u1[1]*u2[1]*u3[1] - u1[2]*u2[2]*u3[1] - u1[3]*u2[3]*u3[1] -
        u1[3]*u2[0]*u3[2] + u1[2]*u2[1]*u3[2] - u1[1]*u2[2]*u3[2] + u1[0]*u2[3]*u3[2] +
        u1[2]*u2[0]*u3[3] + u1[3]*u2[1]*u3[3] - u1[0]*u2[2]*u3[3] - u1[1]*u2[3]*u3[3],
        u1[2]*u2[0]*u3[0] + u1[3]*u2[1]*u3[0] - u1[0]*u2[2]*u3[0] - u1[1]*u2[3]*u3[0] +
        u1[3]*u2[0]*u3[1] - u1[2]*u2[1]*u3[1] + u1[1]*u2[2]*u3[1] - u1[0]*u2[3]*u3[1] -
        u1[0]*u2[0]*u3[2] - u1[1]*u2[1]*u3[2] - u1[2]*u2[2]*u3[2] - u1[3]*u2[3]*u3[2] -
        u1[1]*u2[0]*u3[3] + u1[0]*u2[1]*u3[3] + u1[3]*u2[2]*u3[3] - u1[2]*u2[3]*u3[3],
        u1[3]*u2[0]*u3[0] - u1[2]*u2[1]*u3[0] + u1[1]*u2[2]*u3[0] - u1[0]*u2[3]*u3[0] -
        u1[2]*u2[0]*u3[1] - u1[3]*u2[1]*u3[1] + u1[0]*u2[2]*u3[1] + u1[1]*u2[3]*u3[1] +
        u1[1]*u2[0]*u3[2] - u1[0]*u2[1]*u3[2] - u1[3]*u2[2]*u3[2] + u1[2]*u2[3]*u3[2] -
        u1[0]*u2[0]*u3[3] - u1[1]*u2[1]*u3[3] - u1[2]*u2[2]*u3[3] - u1[3]*u2[3]*u3[3] >>)

\* the clockwise staple computed as the counterwise one
su2staple_clockwise_ascounterwise(u1, u2, u3) == su2staple_counterwise(u1, u2, u3)

\* untraced staple U1^+ U2^+ U3
su2staple_clockwise(u1, u2, u3) ==
    Vec(<<
        u1[0]*u2[0]*u3[0] - u1[1]*u2[1]*u3[0] - u1[2]*u2[2]*u3[0] - u1[3]*u2[3]*u3[0] +
        u1[1]*u2[0]*u3[1] + u1[0]*u2[1]*u3[1] - u1[3]*u2[2]*u3[1] + u1[2]*u2[3]*u3[1] +
        u1[2]*u2[0]*u3[2] + u1[3]*u2[1]*u3[2] + u1[0]*u2[2]*u3[2] - u1[1]*u2[3]*u3[2] +
        u1[3]*u2[0]*u3[3] - u1[2]*u2[1]*u3[3] + u1[1]*u2[2]*u3[3] + u1[0]*u2[3]*u3[3],
        -u1[1]*u2[0]*u3[0] - u1[0]*u2[1]*u3[0] + u1[3]*u2[2]*u3[0] - u1[2]*u2[3]*u3[0] +
        u1[0]*u2[0]*u3[1] - u1[1]*u2[1]*u3[1] - u1[2]*u2[2]*u3[1] - u1[3]*u2[3]*u3[1] -
        u1[3]*u2[0]*u3[2] + u1[2]*u2[1]*u3[2] - u1[1]*u2[2]*u3[2] - u1[0]*u2[3]*u3[2] +
        u1[2]*u2[0]*u3[3] + u1[3]*u2[1]*u3[3] + u1[0]*u2[2]*u3[3] - u1[1]*u2[3]*u3[3],
        -(u1[2]*u2[0]*u3[0]) - u1[3]*u2[1]*u3[0] - u1[0]*u2[2]*u3[0] + u1[1]*u2[3]*u3[0]
        + u1[3]*u2[0]*u3[1] - u1[2]*u2[1]*u3[1] + u1[1]*u2[2]*u3[1] + u1[0]*u2[3]*u3[1]
        + u1[0]*u2[0]*u3[2] - u1[1]*u2[1]*u3[2] - u1[2]*u2[2]*u3[2] - u1[3]*u2[3]*u3[2]
        - u1[1]*u2[0]*u3[3] - u1[0]*u2[1]*u3[3] + u1[3]*u2[2]*u3[3] - u1[2]*u2[3]*u3[3],
        -(u1[3]*u2[0]*u3[0]) + u1[2]*u2[1]*u3[0] - u1[1]*u2[2]*u3[0] - u1[0]*u2[3]*u3[0]
        - u1[2]*u2[0]*u3[1] - u1[3]*u2[1]*u3[1] - u1[0]*u2[2]*u3[1] + u1[1]*u2[3]*u3[1]
        + u1[1]*u2[0]*u3[2] + u1[0]*u2[1]*u3[2] - u1[3]*u2[2]*u3[2] + u1[2]*u2[3]*u3[2]
        + u1[0]*u2[0]*u3[3] - u1[1]*u2[1]*u3[3] - u1[2]*u2[2]*u3[3] - u1[3]*u2[3]*u3[3] >>)

\* tot[k] += V[k]
VecAdd(a, b) == [k \in DOMAIN a |-> a[k] + b[k]]

\* the body of the loop of su2staple_wilson for one j != dir: upper plus lower staple
su2staple_wilson_step(l, f, i, dir, j) ==
    VecAdd(su2staple_counterwise(f.su2link[l.next[i][dir]][j],
                                 f.su2link[l.next[i][j]][dir],
                                 f.su2link[i][j]),
           su2staple_clockwise(f.su2link[l.prev[l.next[i][dir]][j]][j],
                               f.su2link[l.prev[i][j]][dir],
                               f.su2link[l.prev[i][j]][j]))

\* the loop for (j = from; j < dim; j++) of su2staple_wilson, started with tot
RECURSIVE su2staple_wilson_loop(_, _, _, _, _, _)
su2staple_wilson_loop(l, f, i, dir, j, tot) ==
    IF j >= l.dim THEN tot
    ELSE su2staple_wilson_loop(l, f, i, dir, j + 1,
            IF j # dir THEN VecAdd(tot, su2staple_wilson_step(l, f, i, dir, j)) ELSE tot)

\* su2staple_wilson that also adds the staples in direction j = dir
su2staple_wilson_nodirskip(l, f, i, dir) ==
    LET RECURSIVE loop(_, _)
        loop(j, tot) == IF j >= l.dim THEN tot
                        ELSE loop(j + 1, VecAdd(tot, su2staple_wilson_step(l, f, i, dir, j)))
    IN loop(0, Vec(<<0, 0, 0, 0>>))

\* full untraced Wilson staple of the link (i, dir)
su2staple_wilson(l, f, i, dir) ==
    su2staple_wilson_loop(l, f, i, dir, 0, Vec(<<0, 0, 0, 0>>))

(***************************************************************************)
(* su2u1.c: Wilson action of SU(2) and U(1) links.                         *)
(***************************************************************************)
\* the plaquette loops taking both orders dir1 # dir2 of every pair
WilsonLoop_bothorders(l) == {pr \in Dirs(l) \X Dirs(l) : pr[2] # pr[1]}

\* the index pairs of the loops  for (dir1 < dim) for (dir2 < dir1)
WilsonLoop(l) == {pr \in Dirs(l) \X Dirs(l) : pr[2] < pr[1]}

\* beta * \Sum_{i < j} ( 1 - 0.5 Re Tr U_i (x) U_j (x+i) U_i(x+j)^+ U_j(x)^+ )
local_su2wilson(l, f, p, i) ==
    p.betasu2 * SumOn([pr \in WilsonLoop(l) |->
                          1 - Half(su2ptrace(l, f, i, pr[2], pr[1]))], WilsonLoop(l))

\* the directions dir2 != dir of the loops of localact_su2link and localact_u1link
OtherDirs(l, dir) == {dir2 \in Dirs(l) : dir2 # dir}
\* the compile-time flags HIGGS (NHIGGS > 0) and HIGGS2 (NHIGGS == 2)
HIGGS == build.NHIGGS > 0
HIGGS2 == build.NHIGGS = 2

(***************************************************************************)
(* su2u1.c: SU(2) doublets.                                                *)
(***************************************************************************)
\* the sum of squares without the factor 0.5
doubletsq_unhalved(a) == a[0]*a[0] + a[1]*a[1] + a[2]*a[2] + a[3]*a[3]

\* 0.5 Tr \Phi^+ \Phi
doubletsq(a) == Half(a[0]*a[0] + a[1]*a[1] + a[2]*a[2] + a[3]*a[3])

\* Tr \Phi_1^+ U \Phi_2
hopping_trace(phi1, u, phi2) ==
    phi1[0]*phi2[0]*u[0] + phi1[1]*phi2[1]*u[0] + phi1[2]*phi2[2]*u[0] +
    phi1[3]*phi2[3]*u[0] + phi1[1]*phi2[0]*u[1] - phi1[0]*phi2[1]*u[1] -
    phi1[3]*phi2[2]*u[1] + phi1[2]*phi2[3]*u[1] + phi1[2]*phi2[0]*u[2] +
    phi1[3]*phi2[1]*u[2] - phi1[0]*phi2[2]*u[2] - phi1[1]*phi2[3]*u[2] +
    phi1[3]*phi2[0]*u[3] - phi1[2]*phi2[1]*u[3] + phi1[1]*phi2[2]*u[3] -
    phi1[0]*phi2[3]*u[3]

\* the hopping trace without the hypercharge phase
hopping_trace_su2u1_nophase(phi1, u, phi2, a) == hopping_trace(phi1, u, phi2)

\* Re Tr \Phi_1^+ U \Phi_2 exp[-i a sigma_3]
hopping_trace_su2u1(phi1, u, phi2, a) ==
    LET s == sin(a)
        c == cos(a)
    IN
    c*phi1[0]*phi2[0]*u[0] - s*phi1[3]*phi2[0]*u[0] + c*phi1[1]*phi2[1]*u[0] -
    s*phi1[2]*phi2[1]*u[0] + s*phi1[1]*phi2[2]*u[0] + c*phi1[2]*phi2[2]*u[0] +
    s*phi1[0]*phi2[3]*u[0] + c*phi1[3]*phi2[3]*u[0] + c*phi1[1]*phi2[0]*u[1] -
    s*phi1[2]*phi2[0]*u[1] - c*phi1[0]*phi2[1]*u[1] + s*phi1[3]*phi2[1]*u[1] -
    s*phi1[0]*phi2[2]*u[1] - c*phi1[3]*phi2[2]*u[1] + s*phi1[1]*phi2[3]*u[1] +
    c*phi1[2]*phi2[3]*u[1] + s*phi1[1]*phi2[0]*u[2] + c*phi1[2]*phi2[0]*u[2] +
    s*phi1[0]*phi2[1]*u[2] + c*phi1[3]*phi2[1]*u[2] - c*phi1[0]*phi2[2]*u[2] +
    s*phi1[3]*phi2[2]*u[2] - c*phi1[1]*phi2[3]*u[2] + s*phi1[2]*phi2[3]*u[2] +
    s*phi1[0]*phi2[0]*u[3] + c*phi1[3]*phi2[0]*u[3] - s*phi1[1]*phi2[1]*u[3] -
    c*phi1[2]*phi2[1]*u[3] + c*phi1[1]*phi2[2]*u[3] - s*phi1[2]*phi2[2]*u[3] -
    c*phi1[0]*phi2[3]*u[3] + s*phi1[3]*phi2[3]*u[3]

\* -Tr \Phi(x)^+ U_j(x) \Phi(x+j) exp(-i \alpha_j(x) \sigma_3), j = dir
hopping_doublet_forward(l, f, p, phi, i, dir) ==
    LET phi1 == phi[i]
        phi2 == phi[l.next[i][dir]]
        U == f.su2link[i][dir]
    IN IF ~build.U1
       THEN 0 - hopping_trace(phi1, U, phi2)
       ELSE 0 - hopping_trace_su2u1(phi1, U, phi2, f.u1link[i][dir])

\* - Tr \Phi(x-j)^+ U_j(x-j) \Phi(x) exp(-i \alpha_j(x-j) \sigma_3), j = dir
hopping_doublet_backward(l, f, p, phi, i, dir) ==
    LET previous == l.prev[i][dir]
        phi1 == phi[previous]
        phi2 == phi[i]
        U == f.su2link[previous][dir]
    IN IF ~build.U1
       THEN 0 - hopping_trace(phi1, U, phi2)
       ELSE 0 - hopping_trace_su2u1(phi1, U, phi2, f.u1link[previous][dir])

\* covariant_doublet with the local term mod instead of 2.0 * mod
covariant_doublet_singlemod(l, f, p, phi, i) ==
    LET mod == doubletsq(phi[i])
    IN SumOn([dir \in Dirs(l) |->
                 mod + hopping_doublet_forward(l, f, p, phi, i, dir)], Dirs(l))

\* \sum_j [ Tr\Phi(x)^+ \Phi(x) - Tr \Phi(x)^+ U_j(x) \Phi(x+j) exp(-i \alpha_j(x) \sigma_3) ]
covariant_doublet(l, f, p, phi, i) ==
    LET mod == doubletsq(phi[i])
    IN SumOn([dir \in Dirs(l) |->
                 2 * mod + hopping_doublet_forward(l, f, p, phi, i, dir)], Dirs(l))

\* the field of doublet number db: su2doublet, or doublet2 under HIGGS2
DoubletFieldOf(f, db) == IF db = 0 THEN f.su2doublet ELSE f.doublet2

\* Phi times the hypercharge bit I cos(a) - i sin(a) sigma_3 (#ifdef U1)
su2link_staple_hypercharge(b, a) ==
    LET s == sin(a)
        c == cos(a)
    IN Vec(<< c*b[0] + s*b[3],
              c*b[1] + s*b[2],
              (0 - s)*b[1] + c*b[2],
              (0 - s)*b[0] + c*b[3] >>)

\* what su2rot(nextphi, currentphi) leaves in nextphi for the doublet higgs:
\* currentphi is the conjugate of higgs[i] and nextphi is copied from higgs[i]
su2link_staple_doublet(f, higgs, i, dir) ==
    su2rot(IF build.U1 THEN su2link_staple_hypercharge(higgs[i], f.u1link[i][dir])
           ELSE higgs[i],
           su2conj(higgs[i]))

\* total untraced staple for a SU(2) link: -beta * 0.5 * su2staple_wilson()
\* minus 0.5 times the su2rot product of the doublets, for 1 or 2 doublets
su2link_staple(l, f, p, i, dir) ==
    [k \in 0..(SU2LINK - 1) |->
        Half((0 - p.betasu2) * su2staple_wilson(l, f, i, dir)[k])
        - (IF HIGGS
           THEN SumOn([db \in 0..(build.NHIGGS - 1) |->
                         Half(su2link_staple_doublet(f, DoubletFieldOf(f, db), i, dir)[k])],
                      0..(build.NHIGGS - 1))
           ELSE 0)]

(***************************************************************************)
(* su2u1.c: SU(2) triplets.                                                *)
(***************************************************************************)
\* Tr A^2 = 0.5 A^a A^a
tripletsq(a) == Half(a[0]*a[0] + a[1]*a[1] + a[2]*a[2])

\* Tr A1 U A2 U^+
hopping_trace_triplet(a1, u, a2) ==
    Half(
        a1[0]*a2[0]*(u[0]*u[0]) + a1[1]*a2[1]*(u[0]*u[0]) + a1[2]*a2[2]*(u[0]*u[0]) -
        2*a1[2]*a2[1]*u[0]*u[1] + 2*a1[1]*a2[2]*u[0]*u[1] + a1[0]*a2[0]*(u[1]*u[1]) -
        a1[1]*a2[1]*(u[1]*u[1]) - a1[2]*a2[2]*(u[1]*u[1]) + 2*a1[2]*a2[0]*u[0]*u[2] -
        2*a1[0]*a2[2]*u[0]*u[2] + 2*a1[1]*a2[0]*u[1]*u[2] + 2*a1[0]*a2[1]*u[1]*u[2] -
        a1[0]*a2[0]*(u[2]*u[2]) + a1[1]*a2[1]*(u[2]*u[2]) - a1[2]*a2[2]*(u[2]*u[2]) -
        2*a1[1]*a2[0]*u[0]*u[3] + 2*a1[0]*a2[1]*u[0]*u[3] + 2*a1[2]*a2[0]*u[1]*u[3] +
        2*a1[0]*a2[2]*u[1]*u[3] + 2*a1[2]*a2[1]*u[2]*u[3] + 2*a1[1]*a2[2]*u[2]*u[3] -
        a1[0]*a2[0]*(u[3]*u[3]) - a1[1]*a2[1]*(u[3]*u[3]) + a1[2]*a2[2]*(u[3]*u[3]) )

\* -2 Tr A(x) U_j(x) A(x+j) U_j(x)^+, j = dir
hopping_triplet_forward(l, f, p, i, dir) ==
    LET a1 == f.su2triplet[i]
        a2 == f.su2triplet[l.next[i][dir]]
        U == f.su2link[i][dir]
    IN 0 - 2 * hopping_trace_triplet(a1, U, a2)

\* -2 Tr A(x-j) U_j(x-j) A(x) U_j(x-j)^+, j = dir
hopping_triplet_backward(l, f, p, i, dir) ==
    LET previous == l.prev[i][dir]
        a1 == f.su2triplet[previous]
        a2 == f.su2triplet[i]
        U == f.su2link[previous][dir]
    IN 0 - 2 * hopping_trace_triplet(a1, U, a2)

\* 2 \sum_j [ Tr A^2 - Tr A(x) U_j(x) A(x+j) U_j(x)^+ ]
covariant_triplet(l, f, p, i) ==
    LET mod == tripletsq(f.su2triplet[i])
    IN SumOn([dir \in Dirs(l) |->
                 2 * mod + hopping_triplet_forward(l, f, p, i, dir)], Dirs(l))

(***************************************************************************)
(* su2u1.c: the scalar potential and the action of a single variable.      *)
(***************************************************************************)
\* Im f12 with the sign of the h1[1]*h2[2] term flipped
Im_f12_signslip(h1, h2) ==
    Half(h1[3]*h2[0] + h1[2]*h2[1] + h1[1]*h2[2] - h1[0]*h2[3])

\* R = Re f12
Re_f12(h1, h2) == Half(h1[0]*h2[0] + h1[1]*h2[1] + h1[2]*h2[2] + h1[3]*h2[3])

\* I = Im f12 = -0.5 i Tr \Phi_1 \sigma_3 \he\Phi_2
Im_f12(h1, h2) ==
    Half(h1[3]*h2[0] + h1[2]*h2[1] - h1[1]*h2[2] - h1[0]*h2[3])

\* the two-doublet part of higgspotential (#ifdef HIGGS2)
higgspotential2(f, p, i) ==
    LET f11 == doubletsq(f.su2doublet[i])
        f22 == doubletsq(f.doublet2[i])
        h1 == f.su2doublet[i]
        h2 == f.doublet2[i]
        R == Re_f12(h1, h2)
        I == Im_f12(h1, h2)
    IN p.msq_phi2 * f22 + p.m12sq.re * R - p.m12sq.im * I + p.lam2 * f22*f22
       + p.lam3 * f11*f22 + p.lam4 * (R*R + I*I) + p.lam5.re*(R*R - I*I) - 2*p.lam5.im*R*I
       + f11 * (p.lam6.re*R - p.lam6.im*I) + f22*(p.lam7.re*R + p.lam7.im*I)

\* the full scalar potential at site i, including all scalar fields
higgspotential(f, p, i) ==
    LET mod == doubletsq(f.su2doublet[i])
        mod_trip == tripletsq(f.su2triplet[i])
    IN (IF HIGGS THEN p.msq_phi * mod + p.lambda_phi * mod*mod ELSE 0)
       + (IF HIGGS2 THEN higgspotential2(f, p, i) ELSE 0)
       + (IF build.TRIPLET THEN p.msq_triplet * mod_trip + p.b4 * mod_trip * mod_trip ELSE 0)
       + (IF build.TRIPLET /\ HIGGS THEN p.a2 * mod * mod_trip ELSE 0)

\* localact_su2link without the plaquettes at the sites x - dir2
localact_su2link_upperonly(l, f, p, i, dir) ==
    p.betasu2 * SumOn([dir2 \in OtherDirs(l, dir) |->
                          1 - Half(su2ptrace(l, f, i, dir, dir2))], OtherDirs(l, dir))
    + (IF HIGGS THEN hopping_doublet_forward(l, f, p, f.su2doublet, i, dir) ELSE 0)
    + (IF HIGGS2 THEN hopping_doublet_forward(l, f, p, f.doublet2, i, dir) ELSE 0)
    + (IF build.TRIPLET THEN hopping_triplet_forward(l, f, p, i, dir) ELSE 0)

\* the contribution to the total action due to a single SU(2) link
localact_su2link(l, f, p, i, dir) ==
    p.betasu2 * SumOn([dir2 \in OtherDirs(l, dir) |->
                          (1 - Half(su2ptrace(l, f, i, dir, dir2)))
                          + (1 - Half(su2ptrace(l, f, l.prev[i][dir2], dir, dir2)))],
                      OtherDirs(l, dir))
    + (IF HIGGS THEN hopping_doublet_forward(l, f, p, f.su2doublet, i, dir) ELSE 0)
    + (IF HIGGS2 THEN hopping_doublet_forward(l, f, p, f.doublet2, i, dir) ELSE 0)
    + (IF build.TRIPLET THEN hopping_triplet_forward(l, f, p, i, dir) ELSE 0)

\* localact_doublet without the backward hopping terms
localact_doublet_nobackward(l, f, p, phi, i) ==
    covariant_doublet(l, f, p, phi, i) + higgspotential(f, p, i)

\* the action due to a single doublet field phi at site i
localact_doublet(l, f, p, phi, i) ==
    covariant_doublet(l, f, p, phi, i)
    + SumOn([dir \in Dirs(l) |-> hopping_doublet_backward(l, f, p, phi, i, dir)], Dirs(l))
    + higgspotential(f, p, i)

\* the action due to the triplet field at site i
localact_triplet(l, f, p, i) ==
    LET mod == tripletsq(f.su2triplet[i])
    IN covariant_triplet(l, f, p, i)
       + SumOn([dir \in Dirs(l) |-> hopping_triplet_backward(l, f, p, i, dir)], Dirs(l))
       + p.msq_triplet * mod + p.b4 * mod * mod
       + (IF HIGGS THEN p.a2 * doubletsq(f.su2doublet[i]) * mod ELSE 0)

(***************************************************************************)
(* su2u1.c: U(1) links (an angle is a whole number of quarter turns).      *)
(***************************************************************************)
\* cos of the plaquette angle a_1(x) + a_2(x+1) - a_1(x+2) - a_2(x)
u1ptrace(l, f, i, dir1, dir2) ==
    LET u1 == f.u1link[i][dir1]
        u2 == f.u1link[l.next[i][dir1]][dir2]
        u3 == f.u1link[l.next[i][dir2]][dir1]
        u4 == f.u1link[i][dir2]
    IN cos(u1 + u2 - u3 - u4)

\* beta_U1 * \Sum_{i < j} [1 - cos(a_i(x) + a_j(x+i) - a_i(x+j) - a_j(x)]
local_u1wilson(l, f, p, i) ==
    p.betau1 * SumOn([pr \in WilsonLoop(l) |->
                         1 - u1ptrace(l, f, i, pr[2], pr[1])], WilsonLoop(l))

\* localact_u1link without the hopping terms
localact_u1link_nohopping(l, f, p, i, dir) ==
    p.betau1 * SumOn([dir2 \in OtherDirs(l, dir) |->
                         (1 - u1ptrace(l, f, i, dir, dir2))
                         + (1 - u1ptrace(l, f, l.prev[i][dir2], dir, dir2))],
                     OtherDirs(l, dir))

\* the contribution to the total action due to a single U(1) link
localact_u1link(l, f, p, i, dir) ==
    p.betau1 * SumOn([dir2 \in OtherDirs(l, dir) |->
                         (1 - u1ptrace(l, f, i, dir, dir2))
                         + (1 - u1ptrace(l, f, l.prev[i][dir2], dir, dir2))],
                     OtherDirs(l, dir))
    + (IF HIGGS THEN hopping_doublet_forward(l, f, p, f.su2doublet, i, dir) ELSE 0)
    + (IF HIGGS2 THEN hopping_doublet_forward(l, f, p, f.doublet2, i, dir) ELSE 0)

(***************************************************************************)
(* measure.c: the local action.                                            *)
(***************************************************************************)
\* the doublet field number db (f->su2doublet[db])
DoubletField(f, db) == IF db = 0 THEN f.su2doublet ELSE f.doublet2

\* the kinetic term of the singlet at site i (#ifdef SINGLET)
singlet_kinetic(l, f, i) ==
    LET S == f.singlet[i][0]
    IN l.dim * S*S - SumOn([dir \in Dirs(l) |-> S * f.singlet[l.next[i][dir]][0]], Dirs(l))

\* local action for the system at site i; a loop over i gives the total action
action_local(l, f, p, i) ==
    local_su2wilson(l, f, p, i)
    + (IF build.U1 THEN local_u1wilson(l, f, p, i) ELSE 0)
    + higgspotential(f, p, i)
    + SumOn([db \in 0..(build.NHIGGS - 1) |->
                covariant_doublet(l, f, p, DoubletField(f, db), i)], 0..(build.NHIGGS - 1))
    + (IF build.TRIPLET THEN covariant_triplet(l, f, p, i) ELSE 0)
    + (IF build.SINGLET THEN singlet_kinetic(l, f, i) ELSE 0)
(***************************************************************************)
(* magfield.c: Abelian projection and magnetic charge.                     *)
(*                                                                         *)
(* A complex 2x2 matrix is a record [m, d]: its 8 doubles are m[0]/d, ..., *)
(* m[7]/d with one common denominator d > 0, in the notation of matmat:    *)
(*     u[0] + i u[1], u[2] + i u[3]                                        *)
(*     u[4] + i u[5], u[6] + i u[7]                                        *)
(* An angle returned by atan2 is held in units of pi/4.                    *)
(***************************************************************************)
\* matmat taking the transpose of in2 without the complex conjugation
matmat_transpose(in1, in2, dag) ==
    LET a1 == in1.m[0]
        b1 == in1.m[1]
        c1 == in1.m[2]
        d1 == in1.m[3]
        e1 == in1.m[4]
        f1 == in1.m[5]
        g1 == in1.m[6]
        h1 == in1.m[7]
        a2 == in2.m[0]
        b2 == in2.m[1]
        c2 == IF dag # 0 THEN in2.m[4] ELSE in2.m[2]
        d2 == IF dag # 0 THEN in2.m[5] ELSE in2.m[3]
        e2 == IF dag # 0 THEN in2.m[2] ELSE in2.m[4]
        f2 == IF dag # 0 THEN in2.m[3] ELSE in2.m[5]
        g2 == in2.m[6]
        h2 == in2.m[7]
    IN [ m |-> Vec(<< a1*a2 - b1*b2 + c1*e2 - d1*f2,
                      a2*b1 + a1*b2 + d1*e2 + c1*f2,
                      a1*c2 - b1*d2 + c1*g2 - d1*h2,
                      b1*c2 + a1*d2 + d1*g2 + c1*h2,
                      a2*e1 - b2*f1 + e2*g1 - f2*h1,
                      b2*e1 + a2*f1 + f2*g1 + e2*h1,
                      c2*e1 - d2*f1 + g1*g2 - h1*h2,
                      d2*e1 + c2*f1 + g2*h1 + g1*h2 >>),
         d |-> in1.d * in2.d ]

\* in1 <- in1.in2, or in1.in2^+ if dag is nonzero: the new value of in1
matmat(in1, in2, dag) ==
    LET a1 == in1.m[0]
        b1 == in1.m[1]
        c1 == in1.m[2]
        d1 == in1.m[3]
        e1 == in1.m[4]
        f1 == in1.m[5]
        g1 == in1.m[6]
        h1 == in1.m[7]
        a2 == in2.m[0]
        b2 == IF dag # 0 THEN (-1) * in2.m[1] ELSE in2.m[1]
        c2 == IF dag # 0 THEN in2.m[4] ELSE in2.m[2]
        d2 == IF dag # 0 THEN (-1) * in2.m[5] ELSE in2.m[3]
        e2 == IF dag # 0 THEN in2.m[2] ELSE in2.m[4]
        f2 == IF dag # 0 THEN (-1) * in2.m[3] ELSE in2.m[5]
        g2 == in2.m[6]
        h2 == IF dag # 0 THEN (-1) * in2.m[7] ELSE in2.m[7]
    IN [ m |-> Vec(<< a1*a2 - b1*b2 + c1*e2 - d1*f2,
                      a2*b1 + a1*b2 + d1*e2 + c1*f2,
                      a1*c2 - b1*d2 + c1*g2 - d1*h2,
                      b1*c2 + a1*d2 + d1*g2 + c1*h2,
                      a2*e1 - b2*f1 + e2*g1 - f2*h1,
                      b2*e1 + a2*f1 + f2*g1 + e2*h1,
                      c2*e1 - d2*f1 + g1*g2 - h1*h2,
                      d2*e1 + c2*f1 + g2*h1 + g1*h2 >>),
         d |-> in1.d * in2.d ]

\* normalised adjoint field 2 a / |a| (undefined for a = 0: division by zero)
projector(adjoint) ==
    LET a1 == adjoint[0]
        a2 == adjoint[1]
        a3 == adjoint[2]
        norm(modulus) ==
            Vec(<< Div(2*a1, modulus), Div(2*a2, modulus), Div(2*a3, modulus) >>)
    IN norm(Sqrt(a1*a1 + a2*a2 + a3*a3))

\* the projected "U(1) link" at site i in direction dir
project_u1(l, f, i, dir) ==
    LET nextsite == l.next[i][dir]
        pro(hl, hr, u) ==
            [ m |-> Vec(<<
              \* pro[0]
              4*u[0] + 2*hl[2]*u[0] + hl[0]*hr[0]*u[0] + hl[1]*hr[1]*u[0] + 2*hr[2]*u[0] +
              hl[2]*hr[2]*u[0] + 2*hl[1]*u[1] - 2*hr[1]*u[1] - hl[2]*hr[1]*u[1] +
              hl[1]*hr[2]*u[1] - 2*hl[0]*u[2] + 2*hr[0]*u[2] + hl[2]*hr[0]*u[2] -
              hl[0]*hr[2]*u[2] - hl[1]*hr[0]*u[3] + hl[0]*hr[1]*u[3],
              \* pro[1]
              4*u[0] + 2*hl[2]*u[0] + hl[0]*hr[0]*u[0] + hl[1]*hr[1]*u[0] + 2*hr[2]*u[0] +
              hl[2]*hr[2]*u[0] + 2*hl[1]*u[1] - 2*hr[1]*u[1] - hl[2]*hr[1]*u[1] +
              hl[1]*hr[2]*u[1] - 2*hl[0]*u[2] + 2*hr[0]*u[2] + hl[2]*hr[0]*u[2] -
              hl[0]*hr[2]*u[2] - hl[1]*hr[0]*u[3] + hl[0]*hr[1]*u[3],
              \* pro[2]
              2*hl[0]*u[0] + 2*hr[0]*u[0] + hl[2]*hr[0]*u[0] - hl[0]*hr[2]*u[0] +
              hl[1]*hr[0]*u[1] + hl[0]*hr[1]*u[1] + 4*u[2] + 2*hl[2]*u[2] - hl[0]*hr[0]*u[2]
              + hl[1]*hr[1]*u[2] - 2*hr[2]*u[2] - hl[2]*hr[2]*u[2] - 2*hl[1]*u[3] +
              2*hr[1]*u[3] + hl[2]*hr[1]*u[3] + hl[1]*hr[2]*u[3],
              \* pro[3]
              2*hl[0]*u[0] + 2*hr[0]*u[0] + hl[2]*hr[0]*u[0] - hl[0]*hr[2]*u[0] +
              hl[1]*hr[0]*u[1] + hl[0]*hr[1]*u[1] + 4*u[2] + 2*hl[2]*u[2] - hl[0]*hr[0]*u[2]
              + hl[1]*hr[1]*u[2] - 2*hr[2]*u[2] - hl[2]*hr[2]*u[2] - 2*hl[1]*u[3] +
              2*hr[1]*u[3] + hl[2]*hr[1]*u[3] + hl[1]*hr[2]*u[3],
              \* pro[4]
              2*hl[0]*u[0] + 2*hr[0]*u[0] - hl[2]*hr[0]*u[0] + hl[0]*hr[2]*u[0] -
              hl[1]*hr[0]*u[1] - hl[0]*hr[1]*u[1] - 4*u[2] + 2*hl[2]*u[2] + hl[0]*hr[0]*u[2]
              - hl[1]*hr[1]*u[2] - 2*hr[2]*u[2] + hl[2]*hr[2]*u[2] - 2*hl[1]*u[3] +
              2*hr[1]*u[3] - hl[2]*hr[1]*u[3] - hl[1]*hr[2]*u[3],
              \* pro[5]
              2*hl[0]*u[0] + 2*hr[0]*u[0] - hl[2]*hr[0]*u[0] + hl[0]*hr[2]*u[0] -
              hl[1]*hr[0]*u[1] - hl[0]*hr[1]*u[1] - 4*u[2] + 2*hl[2]*u[2] + hl[0]*hr[0]*u[2]
              - hl[1]*hr[1]*u[2] - 2*hr[2]*u[2] + hl[2]*hr[2]*u[2] - 2*hl[1]*u[3] +
              2*hr[1]*u[3] - hl[2]*hr[1]*u[3] - hl[1]*hr[2]*u[3],
              \* pro[6]
              4*u[0] - 2*hl[2]*u[0] + hl[0]*hr[0]*u[0] + hl[1]*hr[1]*u[0] - 2*hr[2]*u[0] +
              hl[2]*hr[2]*u[0] - 2*hl[1]*u[1] + 2*hr[1]*u[1] - hl[2]*hr[1]*u[1] +
              hl[1]*hr[2]*u[1] + 2*hl[0]*u[2] - 2*hr[0]*u[2] + hl[2]*hr[0]*u[2] -
              hl[0]*hr[2]*u[2] - hl[1]*hr[0]*u[3] + hl[0]*hr[1]*u[3],
              \* pro[7]
              4*u[0] - 2*hl[2]*u[0] + hl[0]*hr[0]*u[0] + hl[1]*hr[1]*u[0] - 2*hr[2]*u[0] +
              hl[2]*hr[2]*u[0] - 2*hl[1]*u[1] + 2*hr[1]*u[1] - hl[2]*hr[1]*u[1] +
              hl[1]*hr[2]*u[1] + 2*hl[0]*u[2] - 2*hr[0]*u[2] + hl[2]*hr[0]*u[2] -
              hl[0]*hr[2]*u[2] - hl[1]*hr[0]*u[3] + hl[0]*hr[1]*u[3]
              >>),
             d |-> 16 ]
    IN pro(projector(f.su2triplet[i]), projector(f.su2triplet[nextsite]),
           f.su2link[i][dir])

\* atan2(y, x) in units of pi/4, for the arguments on the eight half-lines it is
\* a multiple of pi/4 on; atan2(0, 0) = 0
atan2(y, x) ==
    CASE y = 0 /\ x >= 0 -> 0
      [] y = 0 /\ x < 0 -> 4
      [] x = 0 /\ y > 0 -> 2
      [] x = 0 /\ y < 0 -> -2
      [] x > 0 /\ y = x -> 1
      [] x > 0 /\ y = -x -> -1
      [] x < 0 /\ y = -x -> 3
      [] x < 0 /\ y = x -> -3

\* the product u1.u2.u3^+.u4^+ of the four projected links of the plaquette
alpha_proj_loop(l, f, i, dir1, dir2) ==
    LET u1 == project_u1(l, f, i, dir1)
        u2 == project_u1(l, f, l.next[i][dir1], dir2)
        u3 == project_u1(l, f, l.next[i][dir2], dir1)
        u4 == project_u1(l, f, i, dir2)
    IN matmat(matmat(matmat(u1, u2, 0), u3, 1), u4, 1)

\* the projected Abelian field strength alpha(x_i)_{dir1, dir2}
alpha_proj(l, f, p, i, dir1, dir2) ==
    LET \* the common denominator u1.d > 0 does not change the angle
        alpha(u1) == atan2(u1.m[1] + u1.m[7], u1.m[0] + u1.m[6])
    IN alpha(alpha_proj_loop(l, f, i, dir1, dir2)) * Sqrt(p.betasu2)

\* the index pairs d1 < d2, both different from dir, of the loops of magfield
MagfieldLoop(l, dir) ==
    {pr \in Dirs(l) \X Dirs(l) : pr[1] # dir /\ pr[2] >= pr[1] + 1 /\ pr[2] # dir}

\* magfield with the middle case d1 < dir < d2 added instead of subtracted
magfield_nosign(l, f, p, i, dir) ==
    SumOn([pr \in MagfieldLoop(l, dir) |-> alpha_proj(l, f, p, i, pr[1], pr[2])],
          MagfieldLoop(l, dir))

\* magnetic field B_dir(x) at site i
magfield(l, f, p, i, dir) ==
    LET add(d1, d2, alpha) == IF d1 > dir THEN alpha
                              ELSE IF d2 > dir THEN 0 - alpha
                              ELSE alpha
    IN SumOn([pr \in MagfieldLoop(l, dir) |->
                 add(pr[1], pr[2], alpha_proj(l, f, p, i, pr[1], pr[2]))],
             MagfieldLoop(l, dir))

\* magcharge_cube adding B1 instead of subtracting it
magcharge_cube_sum(l, f, p, i) ==
    SumOn([dir \in Dirs(l) |->
              magfield(l, f, p, l.next[i][dir], dir) + magfield(l, f, p, i, dir)], Dirs(l))

\* magnetic charge density in the hypercube running in the positive directions from i
magcharge_cube(l, f, p, i) ==
    LET diff(B1, B2) == B2 - B1
    IN SumOn([dir \in Dirs(l) |->
                 diff(magfield(l, f, p, i, dir), magfield(l, f, p, l.next[i][dir], dir))],
             Dirs(l))

(***************************************************************************)
(* measure.c: the volume sums of measure().                                *)
(***************************************************************************)
measure(l, f, p) ==
    [ action |-> SumOn([i \in Sites(l) |-> action_local(l, f, p, i)], Sites(l)),
      wilson |-> SumOn([i \in Sites(l) |-> local_su2wilson(l, f, p, i)], Sites(l)),
      mag_charge |->
          IF build.TRIPLET
          THEN SumOn([i \in Sites(l) |-> magcharge_cube(l, f, p, i)], Sites(l))
          ELSE 0 ]

\* pi, in the unit of the angles returned by atan2 (pi/4)
M_PI == 4

\* the arrays measure_local() fills: Tr Sigma^2 and the magnetic charge per site.
\* The charge magcharge_cube / (2.0*M_PI*sqrt(betasu2)) is held as the fraction n / d.
measure_local(l, f, p) ==
    [ Sigma2    |-> [i \in Sites(l) |-> tripletsq(f.su2triplet[i])],
      magcharge |-> [i \in Sites(l) |->
                       [n |-> magcharge_cube(l, f, p, i),
                        d |-> 2 * M_PI * Sqrt(p.betasu2)]] ]
(***************************************************************************)
(* su2u1.c: smearing.  smear_dir[j] is 1 if direction j is smeared, else 0. *)
(*                                                                         *)
(* The links of a configuration are stored in units of 1 / f.unit: the     *)
(* double f.su2link[i][dir][k] is the stored integer divided by f.unit     *)
(* (unit 1: integer components; unit 2: components in halves).  A sum of   *)
(* products of n links is then an integer vector over f.unit^n.            *)
(***************************************************************************)
\* su2staple_wilson_onedir storing the staples with components 0 and 3 exchanged
su2staple_wilson_onedir_swapped(l, f, i, mu, nu, dagger) ==
    LET site == l.prev[l.next[i][mu]][nu]
        dag(tot) == IF dagger # 0 THEN su2conj(tot) ELSE tot
        swap(tot) == [k \in 0..(SU2LINK - 1) |-> tot[3 - k]]
    IN swap(VecAdd(dag(su2staple_counterwise(f.su2link[l.next[i][mu]][nu],
                                             f.su2link[l.next[i][nu]][mu],
                                             f.su2link[i][nu])),
                   dag(su2staple_clockwise(f.su2link[site][nu],
                                           f.su2link[l.prev[i][nu]][mu],
                                           f.su2link[l.prev[i][nu]][nu]))))

\* the staple for U_mu(x) in the one direction nu, over f.unit^3;
\* with dagger nonzero the Hermitian conjugate of both staples
su2staple_wilson_onedir(l, f, i, mu, nu, dagger) ==
    IF mu = nu THEN Vec(<<f.unit * f.unit * f.unit, 0, 0, 0>>)
    ELSE LET site == l.prev[l.next[i][mu]][nu]
             dag(tot) == IF dagger # 0 THEN su2conj(tot) ELSE tot
         IN VecAdd(dag(su2staple_counterwise(f.su2link[l.next[i][mu]][nu],
                                             f.su2link[l.next[i][nu]][mu],
                                             f.su2link[i][nu])),
                   dag(su2staple_clockwise(f.su2link[site][nu],
                                           f.su2link[l.prev[i][nu]][mu],
                                           f.su2link[l.prev[i][nu]][nu])))

\* the directions j != dir with smear_dir[j] set
SmearLoop(l, smear_dir, dir) == {j \in Dirs(l) : j # dir /\ smear_dir[j] # 0}

\* V_dir(x) before the normalisation: link plus the staples in the smeared
\* directions, over f.unit^3
smear_link_sum(l, f, smear_dir, x, dir) ==
    [k \in 0..(SU2LINK - 1) |->
        f.unit * f.unit * f.su2link[x][dir][k]
        + SumOn([j \in SmearLoop(l, smear_dir, dir) |->
                    su2staple_wilson_onedir(l, f, x, dir, j, 1)[k]],
                SmearLoop(l, smear_dir, dir))]

\* the smeared link at site i: the record [m, dsq, paths] is the vector
\* res[k] = m[k] / sqrt(dsq).  res and v2 are divided by paths, multiplied by
\* su2rot and divided by det = sqrt(su2sqr(res)); the common denominator
\* (f.unit^3 * paths)^2 of res and of det cancels in res[k] /= det.
\* dsq = 0 is the division 0.0 / 0.0.
smear_link(l, f, smear_dir, i, dir) ==
    LET paths == 1 + 2 * Cardinality(SmearLoop(l, smear_dir, dir))
        normalize(res) == [m |-> res, dsq |-> su2sqr(res), paths |-> paths]
    IN normalize(su2rot(smear_link_sum(l, f, smear_dir, i, dir),
                        smear_link_sum(l, f, smear_dir, l.next[i][dir], dir)))

\* forward connection Ui(x) Sigma(x+i) Ui^+(x), over f.unit^2
smear_triplet_forward(u, b) ==
    Vec(<< b[0]*(u[0]*u[0]) + b[0]*(u[1]*u[1]) - 2*b[2]*u[0]*u[2]
           + 2*b[1]*u[1]*u[2] - b[0]*(u[2]*u[2]) + 2*b[1]*u[0]*u[3]
           + 2*b[2]*u[1]*u[3] - b[0]*(u[3]*u[3]),
           b[1]*(u[0]*u[0]) + 2*b[2]*u[0]*u[1] - b[1]*(u[1]*u[1])
           + 2*b[0]*u[1]*u[2] + b[1]*(u[2]*u[2]) - 2*b[0]*u[0]*u[3]
           + 2*b[2]*u[2]*u[3] - b[1]*(u[3]*u[3]),
           b[2]*(u[0]*u[0]) - 2*b[1]*u[0]*u[1] - b[2]*(u[1]*u[1])
           + 2*b[0]*u[0]*u[2] - b[2]*(u[2]*u[2]) + 2*b[0]*u[1]*u[3]
           + 2*b[1]*u[2]*u[3] + b[2]*(u[3]*u[3]) >>)

\* smear_triplet_backward transporting with the link as the forward connection does
smear_triplet_backward_asforward(u, b) == smear_triplet_forward(u, b)

\* backward connection Ui^+(x-i) Sigma(x-i) Ui(x-i), over f.unit^2
smear_triplet_backward(u, b) ==
    Vec(<< b[0]*(u[0]*u[0]) + b[0]*(u[1]*u[1]) + 2*b[2]*u[0]*u[2]
           + 2*b[1]*u[1]*u[2] - b[0]*(u[2]*u[2]) - 2*b[1]*u[0]*u[3]
           + 2*b[2]*u[1]*u[3] - b[0]*(u[3]*u[3]),
           b[1]*(u[0]*u[0]) - 2*b[2]*u[0]*u[1] - b[1]*(u[1]*u[1])
           + 2*b[0]*u[1]*u[2] + b[1]*(u[2]*u[2]) + 2*b[0]*u[0]*u[3]
           + 2*b[2]*u[2]*u[3] - b[1]*(u[3]*u[3]),
           b[2]*(u[0]*u[0]) + 2*b[1]*u[0]*u[1] - b[2]*(u[1]*u[1])
           - 2*b[0]*u[0]*u[2] - b[2]*(u[2]*u[2]) + 2*b[0]*u[1]*u[3]
           + 2*b[1]*u[2]*u[3] + b[2]*(u[3]*u[3]) >>)

\* the directions with smear_dir[dir] set
SmearDirs(l, smear_dir) == {dir \in Dirs(l) : smear_dir[dir] # 0}

\* the smeared triplet at site i: the record [m, d] is the vector res[k] = m[k] / d
smear_triplet(l, f, smear_dir, i) ==
    LET sites == 1 + 2 * Cardinality(SmearDirs(l, smear_dir))
        cov(k) == SumOn([dir \in SmearDirs(l, smear_dir) |->
                          smear_triplet_forward(f.su2link[i][dir],
                                                f.su2triplet[l.next[i][dir]])[k]
                          + smear_triplet_backward(f.su2link[l.prev[i][dir]][dir],
                                                   f.su2triplet[l.prev[i][dir]])[k]],
                       SmearDirs(l, smear_dir))
    IN [ m |-> [k \in 0..(SU2TRIP - 1) |-> f.unit * f.unit * f.su2triplet[i][k] + cov(k)],
         d |-> f.unit * f.unit * sites ]

(***************************************************************************)
(* The run: a start configuration, measure(), the update of one variable   *)
(* by the sampler, measure() again.                                        *)
(***************************************************************************)
\* number of hot-start patterns besides the cold start
MaxSeed == 2

\* the couplings (struct params)
params ==
    [ betasu2 |-> 4, betau1 |-> 3,
      msq_phi |-> -2, lambda_phi |-> 1,
      msq_triplet |-> -3, a2 |-> 5, b4 |-> 2,
      msq_phi2 |-> 7, m12sq |-> [re |-> 3, im |-> -1],
      lam2 |-> 2, lam3 |-> -3, lam4 |-> 5,
      lam5 |-> [re |-> 1, im |-> 2], lam6 |-> [re |-> -1, im |-> 3],
      lam7 |-> [re |-> 2, im |-> -5] ]

\* the lattices: side lengths per direction
Lattices == { <<3, 3>>, <<2, 2, 2>> }

\* the builds: which species are compiled in
Builds ==
    { [NHIGGS |-> 0, TRIPLET |-> FALSE, U1 |-> FALSE, SINGLET |-> FALSE],
      [NHIGGS |-> 1, TRIPLET |-> FALSE, U1 |-> FALSE, SINGLET |-> TRUE],
      [NHIGGS |-> 2, TRIPLET |-> FALSE, U1 |-> TRUE,  SINGLET |-> FALSE],
      [NHIGGS |-> 0, TRIPLET |-> TRUE,  U1 |-> FALSE, SINGLET |-> FALSE],
      [NHIGGS |-> 1, TRIPLET |-> TRUE,  U1 |-> TRUE,  SINGLET |-> TRUE] }

\* unit-norm links: the quaternion units
LinkVals ==
    << Vec(<<1, 0, 0, 0>>), Vec(<<0, 1, 0, 0>>), Vec(<<0, 0, 1, 0>>), Vec(<<0, 0, 0, 1>>),
       Vec(<<-1, 0, 0, 0>>), Vec(<<0, -1, 0, 0>>), Vec(<<0, 0, -1, 0>>), Vec(<<0, 0, 0, -1>>) >>

\* doublet values (even components: every 0.5 * x of the code is exact)
DoubletVals ==
    << Vec(<<2, 0, 0, 0>>), Vec(<<0, 2, -2, 0>>), Vec(<<2, 0, 4, -2>>),
       Vec(<<0, 0, 0, 0>>), Vec(<<-2, 2, 2, 4>>) >>

\* nonzero triplet values along an axis (the modulus and 2 a / |a| are exact)
TripletVals ==
    << Vec(<<0, 0, 2>>), Vec(<<2, 0, 0>>), Vec(<<0, -2, 0>>), Vec(<<0, 0, -4>>),
       Vec(<<-2, 0, 0>>), Vec(<<0, 4, 0>>) >>

U1Vals == 0..3
SingletVals == << 0, 1, -2, 3 >>

\* entry number (n mod Len) of a list of values
Pick(vals, n) == vals[1 + (n % Len(vals))]

\* start configuration: seed 0 is the cold start, seed > 0 a hot start
StartFields(l, seed) ==
    [ su2link    |-> [i \in Sites(l) |-> [dir \in Dirs(l) |->
                        IF seed = 0 THEN Pick(LinkVals, 0)
                        ELSE Pick(LinkVals, 3*i + 2*dir + 3*i*dir
                                            + seed * (3*i + 2*dir + 1))]],
      u1link     |-> [i \in Sites(l) |-> [dir \in Dirs(l) |->
                        (seed * (i + 2*dir + 1)) % 4]],
      su2doublet |-> [i \in Sites(l) |-> Pick(DoubletVals, seed * (i + 1))],
      doublet2   |-> [i \in Sites(l) |-> Pick(DoubletVals, seed * (2*i + 3) + 1)],
      su2triplet |-> [i \in Sites(l) |-> Pick(TripletVals, seed * (i*i + 3*i + 1))],
      singlet    |-> [i \in Sites(l) |-> Vec(<< Pick(SingletVals, seed * (3*i + 1)) >>)],
      unit       |-> 1 ]

MagIdle == [site |-> 0, dir |-> 0, B |-> 0, pc |-> "idle"]
NoCall == [fn |-> "none", pc |-> "idle"]
NoUpdate == [kind |-> "none", site |-> 0, dir |-> 0]
NoMeasure == [action |-> 0, wilson |-> 0, mag_charge |-> 0]
RotIdle == [u1 |-> Vec(<<1, 0, 0, 0>>), u2 |-> Vec(<<1, 0, 0, 0>>),
            old |-> Vec(<<1, 0, 0, 0>>), mode |-> "none", pc |-> "idle"]

Init ==
    \E shape \in Lattices, b \in Builds, seed \in 0..MaxSeed :
        /\ lat = Layout(shape)
        /\ build = b
        /\ fld = StartFields(Layout(shape), seed)
        /\ fldOld = StartFields(Layout(shape), seed)
        /\ upd = NoUpdate
        /\ pc = "start"
        /\ meas = NoMeasure
        /\ measOld = NoMeasure
        /\ dS = 0
        /\ rot = RotIdle
        /\ mag = MagIdle
        /\ call = NoCall

\* measure(): accumulate the volume sums
Measure ==
    /\ pc \in {"start", "updated"}
    /\ meas' = measure(lat, fld, params)
    /\ pc' = IF pc = "start" THEN "measured" ELSE "remeasured"
    /\ UNCHANGED <<lat, build, fld, fldOld, upd, measOld, dS, rot, mag, call>>

\* the sampler replaces one variable and computes the change of its local action
Update(kind, i, dir, new, old, dAct) ==
    /\ pc = "measured"
    /\ fldOld' = fld
    /\ fld' = new
    /\ upd' = [kind |-> kind, site |-> i, dir |-> dir]
    /\ dS' = dAct
    /\ measOld' = meas
    /\ pc' = "updated"
    /\ UNCHANGED <<lat, build, meas, rot, mag, call>>

UpdateSu2link ==
    \E i \in Sites(lat), dir \in Dirs(lat), k \in 1..Len(LinkVals) :
        LET new == [fld EXCEPT !.su2link[i][dir] = LinkVals[k]]
        IN Update("su2link", i, dir, new, fld,
                  localact_su2link(lat, new, params, i, dir)
                  - localact_su2link(lat, fld, params, i, dir))

UpdateU1link ==
    /\ build.U1
    /\ \E i \in Sites(lat), dir \in Dirs(lat), a \in U1Vals :
        LET new == [fld EXCEPT !.u1link[i][dir] = a]
        IN Update("u1link", i, dir, new, fld,
                  localact_u1link(lat, new, params, i, dir)
                  - localact_u1link(lat, fld, params, i, dir))

UpdateDoublet ==
    /\ build.NHIGGS >= 1
    /\ \E i \in Sites(lat), k \in 1..Len(DoubletVals) :
        LET new == [fld EXCEPT !.su2doublet[i] = DoubletVals[k]]
        IN Update("su2doublet", i, 0, new, fld,
                  localact_doublet(lat, new, params, new.su2doublet, i)
                  - localact_doublet(lat, fld, params, fld.su2doublet, i))

UpdateDoublet2 ==
    /\ build.NHIGGS = 2
    /\ \E i \in Sites(lat), k \in 1..Len(DoubletVals) :
        LET new == [fld EXCEPT !.doublet2[i] = DoubletVals[k]]
        IN Update("doublet2", i, 0, new, fld,
                  localact_doublet(lat, new, params, new.doublet2, i)
                  - localact_doublet(lat, fld, params, fld.doublet2, i))

UpdateTriplet ==
    /\ build.TRIPLET
    /\ \E i \in Sites(lat), k \in 1..Len(TripletVals) :
        LET new == [fld EXCEPT !.su2triplet[i] = TripletVals[k]]
        IN Update("su2triplet", i, 0, new, fld,
                  localact_triplet(lat, new, params, i)
                  - localact_triplet(lat, fld, params, i))

Next ==
    \/ Measure
    \/ UpdateSu2link
    \/ UpdateU1link
    \/ UpdateDoublet
    \/ UpdateDoublet2
    \/ UpdateTriplet

Spec == Init /\ [][Next]_vars

(***************************************************************************)
(* su2rot on its own: U1 <- U1.U2 for arbitrary parameter vectors, with U2 *)
(* passed as is or conjugated first, as su2plaquette does with u3 and u4.  *)
(***************************************************************************)
MaxComp == 1

\* parameter vectors with integer components of absolute value <= MaxComp
Su2Vecs == [0..(SU2LINK - 1) -> (0 - MaxComp)..MaxComp]

InitRot ==
    /\ lat = Layout(<<2, 2>>)
    /\ build = [NHIGGS |-> 0, TRIPLET |-> FALSE, U1 |-> FALSE, SINGLET |-> FALSE]
    /\ fld = StartFields(Layout(<<2, 2>>), 0)
    /\ fldOld = StartFields(Layout(<<2, 2>>), 0)
    /\ upd = NoUpdate
    /\ pc = "rot"
    /\ meas = NoMeasure
    /\ measOld = NoMeasure
    /\ dS = 0
    /\ mag = MagIdle
    /\ call = NoCall
    /\ \E a \in Su2Vecs, b \in Su2Vecs :
          rot = [u1 |-> a, u2 |-> b, old |-> a, mode |-> "none", pc |-> "ready"]

\* su2rot(u1, u2)
Rot ==
    /\ rot.pc = "ready"
    /\ rot' = [rot EXCEPT !.u1 = su2rot(rot.u1, rot.u2), !.old = rot.u1,
                          !.mode = "plain", !.pc = "done"]
    /\ UNCHANGED <<lat, build, fld, fldOld, upd, pc, meas, measOld, dS, mag, call>>

\* u2 conjugated in place, then su2rot(u1, u2)
RotConj ==
    /\ rot.pc = "ready"
    /\ rot' = [rot EXCEPT !.u1 = su2rot(rot.u1, su2conj(rot.u2)), !.u2 = su2conj(rot.u2),
                          !.old = rot.u1, !.mode = "conj", !.pc = "done"]
    /\ UNCHANGED <<lat, build, fld, fldOld, upd, pc, meas, measOld, dS, mag, call>>

NextRot == Rot \/ RotConj

SpecRot == InitRot /\ [][NextRot]_vars

(***************************************************************************)
(* magfield on its own: B_dir(x) at one site and direction of a start      *)
(* configuration of a TRIPLET build, in three and in four dimensions.      *)
(***************************************************************************)
MagLattices == { <<2, 2, 2>>, <<3, 2, 2>>, <<2, 2, 2, 2>> }

InitMag ==
    \E shape \in MagLattices, b \in {x \in Builds : x.TRIPLET}, seed \in 0..MaxSeed :
        /\ lat = Layout(shape)
        /\ build = b
        /\ fld = StartFields(Layout(shape), seed)
        /\ fldOld = StartFields(Layout(shape), seed)
        /\ upd = NoUpdate
        /\ pc = "mag"
        /\ meas = NoMeasure
        /\ measOld = NoMeasure
        /\ dS = 0
        /\ rot = RotIdle
        /\ mag = [site |-> 0, dir |-> 0, B |-> 0, pc |-> "ready"]
        /\ call = NoCall

\* magfield(p, f, i, dir)
Magfield ==
    /\ mag.pc = "ready"
    /\ \E i \in Sites(lat), dir \in Dirs(lat) :
          mag' = [site |-> i, dir |-> dir, B |-> magfield(lat, fld, params, i, dir),
                  pc |-> "done"]
    /\ UNCHANGED <<lat, build, fld, fldOld, upd, pc, meas, measOld, dS, rot, call>>

\* measure_local(fname, l, f, p): the per-site arrays, before they are written out
MeasureLocal ==
    /\ pc = "mag"
    /\ call.pc = "idle"
    /\ call' = [fn |-> "measure_local", pc |-> "done",
                res |-> measure_local(lat, fld, params)]
    /\ UNCHANGED <<lat, build, fld, fldOld, upd, pc, meas, measOld, dS, rot, mag>>

NextMag ==
    \/ Magfield
    \/ MeasureLocal

SpecMag == InitMag /\ [][NextMag]_vars

(***************************************************************************)
(* The routines as they act on memory.  A routine receives pointers and    *)
(* stores through them; here a pointer is a record naming either a buffer  *)
(* of the caller or of a routine (a local array), or an element of the     *)
(* field storage, and a routine is the sequence of its stores.  The memory *)
(* is the record [f, b]: the fields and the buffers by name.               *)
(***************************************************************************)
\* pointers: a buffer, f->su2link[i][dir], f->su2triplet[i], higgs[i]
Buf(name) == [at |-> "buf", name |-> name]
Link(i, dir) == [at |-> "su2link", i |-> i, dir |-> dir]
Triplet(i) == [at |-> "su2triplet", i |-> i]
Doublet(db, i) == [at |-> IF db = 0 THEN "su2doublet" ELSE "doublet2", i |-> i]

\* *ptr
Load(S, ptr) ==
    CASE ptr.at = "buf" -> S.b[ptr.name]
      [] ptr.at = "su2link" -> S.f.su2link[ptr.i][ptr.dir]
      [] ptr.at = "su2triplet" -> S.f.su2triplet[ptr.i]
      [] ptr.at = "su2doublet" -> S.f.su2doublet[ptr.i]
      [] ptr.at = "doublet2" -> S.f.doublet2[ptr.i]

\* *ptr = v
StoreAt(S, ptr, v) ==
    CASE ptr.at = "buf" -> [S EXCEPT !.b = (ptr.name :> v) @@ S.b]
      [] ptr.at = "su2link" -> [S EXCEPT !.f.su2link[ptr.i][ptr.dir] = v]
      [] ptr.at = "su2triplet" -> [S EXCEPT !.f.su2triplet[ptr.i] = v]
      [] ptr.at = "su2doublet" -> [S EXCEPT !.f.su2doublet[ptr.i] = v]
      [] ptr.at = "doublet2" -> [S EXCEPT !.f.doublet2[ptr.i] = v]

\* one statement or leaf call: the operation, the pointer written, the pointers read
Ins(op, dst, src, arg) == [op |-> op, dst |-> dst, src |-> src, arg |-> arg]

\* the memory after one statement
Exec(l, p, S, ins) ==
    CASE ins.op = "memcpy" -> StoreAt(S, ins.dst, Load(S, ins.src[1]))
      [] ins.op = "zero" -> StoreAt(S, ins.dst, Vec(<<0, 0, 0, 0>>))
      [] ins.op = "identity" -> StoreAt(S, ins.dst, Vec(<<1, 0, 0, 0>>))
      [] ins.op = "conj" -> StoreAt(S, ins.dst, su2conj(Load(S, ins.dst)))
      [] ins.op = "add" -> StoreAt(S, ins.dst, VecAdd(Load(S, ins.dst), Load(S, ins.src[1])))
      [] ins.op = "scale" ->
            StoreAt(S, ins.dst, [k \in 0..(SU2LINK - 1) |->
                                    Half(ins.arg * Load(S, ins.dst)[k])])
      [] ins.op = "subhalf" ->
            StoreAt(S, ins.dst, [k \in 0..(SU2LINK - 1) |->
                                    Load(S, ins.dst)[k] - Half(Load(S, ins.src[1])[k])])
      [] ins.op = "hypercharge" ->
            StoreAt(S, ins.dst, su2link_staple_hypercharge(Load(S, ins.dst),
                                                           S.f.u1link[ins.arg[1]][ins.arg[2]]))
      [] ins.op = "su2rot" ->
            StoreAt(S, ins.dst, su2rot(Load(S, ins.dst), Load(S, ins.src[1])))
      [] ins.op = "matmat" ->
            StoreAt(S, ins.dst, matmat(Load(S, ins.dst), Load(S, ins.src[1]), ins.arg))
      [] ins.op = "su2staple_counterwise" ->
            StoreAt(S, ins.dst, su2staple_counterwise(Load(S, ins.src[1]), Load(S, ins.src[2]),
                                                      Load(S, ins.src[3])))
      [] ins.op = "su2staple_clockwise" ->
            StoreAt(S, ins.dst, su2staple_clockwise(Load(S, ins.src[1]), Load(S, ins.src[2]),
                                                    Load(S, ins.src[3])))
      [] ins.op = "project_u1" ->
            StoreAt(S, ins.dst, project_u1(l, S.f, ins.arg[1], ins.arg[2]))
      [] ins.op = "normalize" ->
            StoreAt(S, ins.dst,
                    [m |-> su2rot(Load(S, ins.dst), Load(S, ins.src[1])),
                     dsq |-> su2sqr(su2rot(Load(S, ins.dst), Load(S, ins.src[1]))),
                     paths |-> ins.arg])
      [] ins.op = "smear_triplet" ->
            StoreAt(S, ins.dst, smear_triplet(l, S.f, ins.arg[1], ins.arg[2]))

\* the memory after the statements of prog, in order
RECURSIVE Run(_, _, _, _)
Run(l, p, S, prog) ==
    IF prog = <<>> THEN S ELSE Run(l, p, Exec(l, p, S, Head(prog)), Tail(prog))

\* the statements of a loop: the concatenation of the bodies
RECURSIVE Flatten(_)
Flatten(bodies) == IF bodies = <<>> THEN <<>> ELSE Head(bodies) \o Flatten(Tail(bodies))

\* su2rot(u1, u2) and matmat(in1, in2, dag): one store, to the first operand
su2rot_mem(u1, u2) == << Ins("su2rot", u1, <<u2>>, 0) >>
matmat_mem(in1, in2, dag) == << Ins("matmat", in1, <<in2>>, dag) >>

\* su2plaquette working on the links in place, as su2ptrace takes its pointers
su2plaquette_mem_inplace(l, i, dir1, dir2, u1) ==
    << Ins("memcpy", u1, <<Link(i, dir1)>>, 0),
       Ins("conj", Link(l.next[i][dir2], dir1), <<>>, 0),
       Ins("conj", Link(i, dir2), <<>>, 0),
       Ins("su2rot", Link(l.next[i][dir2], dir1), <<Link(i, dir2)>>, 0),
       Ins("su2rot", Link(l.next[i][dir1], dir2), <<Link(l.next[i][dir2], dir1)>>, 0),
       Ins("su2rot", u1, <<Link(l.next[i][dir1], dir2)>>, 0) >>

\* su2plaquette(l, f, i, dir1, dir2, u1)
su2plaquette_mem(l, i, dir1, dir2, u1) ==
    << Ins("memcpy", u1, <<Link(i, dir1)>>, 0),
       Ins("memcpy", Buf("su2plaquette.u2"), <<Link(l.next[i][dir1], dir2)>>, 0),
       Ins("memcpy", Buf("su2plaquette.u3"), <<Link(l.next[i][dir2], dir1)>>, 0),
       Ins("memcpy", Buf("su2plaquette.u4"), <<Link(i, dir2)>>, 0),
       Ins("conj", Buf("su2plaquette.u3"), <<>>, 0),
       Ins("conj", Buf("su2plaquette.u4"), <<>>, 0),
       Ins("su2rot", Buf("su2plaquette.u3"), <<Buf("su2plaquette.u4")>>, 0),
       Ins("su2rot", Buf("su2plaquette.u2"), <<Buf("su2plaquette.u3")>>, 0),
       Ins("su2rot", u1, <<Buf("su2plaquette.u2")>>, 0) >>

\* one of the three further plaquettes of clover_su2: four copies into u1..u4, the
\* two conjugations c1, c2, three products, clover[k] += u1[k]
clover_su2_block(p1, p2, p3, p4, c1, c2, clover) ==
    << Ins("memcpy", Buf("clover_su2.u1"), <<p1>>, 0),
       Ins("memcpy", Buf("clover_su2.u2"), <<p2>>, 0),
       Ins("memcpy", Buf("clover_su2.u3"), <<p3>>, 0),
       Ins("memcpy", Buf("clover_su2.u4"), <<p4>>, 0),
       Ins("conj", Buf(c1), <<>>, 0),
       Ins("conj", Buf(c2), <<>>, 0),
       Ins("su2rot", Buf("clover_su2.u3"), <<Buf("clover_su2.u4")>>, 0),
       Ins("su2rot", Buf("clover_su2.u2"), <<Buf("clover_su2.u3")>>, 0),
       Ins("su2rot", Buf("clover_su2.u1"), <<Buf("clover_su2.u2")>>, 0),
       Ins("add", clover, <<Buf("clover_su2.u1")>>, 0) >>

\* clover_su2 adding the plaquette at site i four times
clover_su2_mem_samecorner(l, i, d1, d2, clover) ==
    su2plaquette_mem(l, i, d1, d2, clover)
    \o Flatten([n \in 1..3 |->
          su2plaquette_mem(l, i, d1, d2, Buf("clover_su2.u1"))
          \o << Ins("add", clover, <<Buf("clover_su2.u1")>>, 0) >>])

\* clover_su2(l, f, i, d1, d2, clover)
clover_su2_mem(l, i, d1, d2, clover) ==
    su2plaquette_mem(l, i, d1, d2, clover)
    \o clover_su2_block(Link(i, d2), Link(l.prev[l.next[i][d2]][d1], d1),
                        Link(l.prev[i][d1], d2), Link(l.prev[i][d1], d1),
                        "clover_su2.u2", "clover_su2.u3", clover)
    \o clover_su2_block(Link(l.prev[i][d1], d1), Link(l.prev[l.prev[i][d1]][d2], d2),
                        Link(l.prev[l.prev[i][d1]][d2], d1), Link(l.prev[i][d2], d2),
                        "clover_su2.u1", "clover_su2.u2", clover)
    \o clover_su2_block(Link(l.prev[i][d2], d2), Link(l.prev[i][d2], d1),
                        Link(l.next[l.prev[i][d2]][d1], d2), Link(i, d1),
                        "clover_su2.u1", "clover_su2.u4", clover)

\* su2staple_wilson adding only the staples on the side of increasing j
su2staple_wilson_mem_upperonly(l, i, dir, V) ==
    << Ins("zero", Buf("su2staple_wilson.tot"), <<>>, 0) >>
    \o Flatten([jj \in 1..l.dim |->
          IF jj - 1 # dir
          THEN << Ins("su2staple_counterwise", V,
                      << Link(l.next[i][dir], jj - 1), Link(l.next[i][jj - 1], dir),
                         Link(i, jj - 1) >>, 0),
                  Ins("add", Buf("su2staple_wilson.tot"), <<V>>, 0) >>
          ELSE <<>>])
    \o << Ins("memcpy", V, <<Buf("su2staple_wilson.tot")>>, 0) >>

\* su2staple_wilson(l, f, i, dir, V)
su2staple_wilson_mem(l, i, dir, V) ==
    << Ins("zero", Buf("su2staple_wilson.tot"), <<>>, 0) >>
    \o Flatten([jj \in 1..l.dim |->
          IF jj - 1 # dir
          THEN << Ins("su2staple_counterwise", V,
                      << Link(l.next[i][dir], jj - 1), Link(l.next[i][jj - 1], dir),
                         Link(i, jj - 1) >>, 0),
                  Ins("add", Buf("su2staple_wilson.tot"), <<V>>, 0),
                  Ins("su2staple_clockwise", V,
                      << Link(l.prev[l.next[i][dir]][jj - 1], jj - 1),
                         Link(l.prev[i][jj - 1], dir), Link(l.prev[i][jj - 1], jj - 1) >>, 0),
                  Ins("add", Buf("su2staple_wilson.tot"), <<V>>, 0) >>
          ELSE <<>>])
    \o << Ins("memcpy", V, <<Buf("su2staple_wilson.tot")>>, 0) >>

\* su2link_staple(l, f, p, i, dir, V)
su2link_staple_mem(l, p, i, dir, V) ==
    su2staple_wilson_mem(l, i, dir, V)
    \o << Ins("scale", V, <<>>, 0 - p.betasu2) >>
    \o Flatten([dd \in 1..build.NHIGGS |->
          << Ins("memcpy", Buf("su2link_staple.currentphi"), <<Doublet(dd - 1, i)>>, 0),
             Ins("conj", Buf("su2link_staple.currentphi"), <<>>, 0),
             Ins("memcpy", Buf("su2link_staple.nextphi"), <<Doublet(dd - 1, i)>>, 0) >>
          \o (IF build.U1
              THEN << Ins("hypercharge", Buf("su2link_staple.nextphi"), <<>>, <<i, dir>>) >>
              ELSE <<>>)
          \o << Ins("su2rot", Buf("su2link_staple.nextphi"),
                    <<Buf("su2link_staple.currentphi")>>, 0),
                Ins("subhalf", V, <<Buf("su2link_staple.nextphi")>>, 0) >>])

\* su2staple_wilson_onedir(l, f, i, mu, nu, dagger, res)
su2staple_wilson_onedir_mem(l, i, mu, nu, dagger, res) ==
    IF mu = nu THEN << Ins("identity", res, <<>>, 0) >>
    ELSE << Ins("su2staple_counterwise", Buf("su2staple_wilson_onedir.tot"),
                << Link(l.next[i][mu], nu), Link(l.next[i][nu], mu), Link(i, nu) >>, 0) >>
         \o (IF dagger # 0
             THEN << Ins("conj", Buf("su2staple_wilson_onedir.tot"), <<>>, 0) >> ELSE <<>>)
         \o << Ins("memcpy", res, <<Buf("su2staple_wilson_onedir.tot")>>, 0),
               Ins("su2staple_clockwise", Buf("su2staple_wilson_onedir.tot"),
                   << Link(l.prev[l.next[i][mu]][nu], nu), Link(l.prev[i][nu], mu),
                      Link(l.prev[i][nu], nu) >>, 0) >>
         \o (IF dagger # 0
             THEN << Ins("conj", Buf("su2staple_wilson_onedir.tot"), <<>>, 0) >> ELSE <<>>)
         \o << Ins("add", res, <<Buf("su2staple_wilson_onedir.tot")>>, 0) >>

\* smear_link(l, f, smear_dir, res, i, dir), for links of integer components
smear_link_mem(l, smear_dir, res, i, dir) ==
    << Ins("zero", Buf("smear_link.stap"), <<>>, 0),
       Ins("memcpy", res, <<Link(i, dir)>>, 0),
       Ins("memcpy", Buf("smear_link.v2"), <<Link(l.next[i][dir], dir)>>, 0) >>
    \o Flatten([jj \in 1..l.dim |->
          IF jj - 1 # dir /\ smear_dir[jj - 1] # 0
          THEN su2staple_wilson_onedir_mem(l, i, dir, jj - 1, 1, Buf("smear_link.stap"))
               \o << Ins("add", res, <<Buf("smear_link.stap")>>, 0) >>
               \o su2staple_wilson_onedir_mem(l, l.next[i][dir], dir, jj - 1, 1,
                                              Buf("smear_link.stap"))
               \o << Ins("add", Buf("smear_link.v2"), <<Buf("smear_link.stap")>>, 0) >>
          ELSE <<>>])
    \o << Ins("normalize", res, <<Buf("smear_link.v2")>>,
              1 + 2 * Cardinality(SmearLoop(l, smear_dir, dir))) >>

\* smear_triplet(l, f, smear_dir, res, i): its only stores are to res
smear_triplet_mem(l, smear_dir, res, i) ==
    << Ins("smear_triplet", res, <<>>, <<smear_dir, i>>) >>

\* alpha_proj multiplying by u3 without the conjugation
alpha_proj_mem_onedagger(l, i, dir1, dir2) ==
    << Ins("project_u1", Buf("alpha_proj.u1"), <<>>, <<i, dir1>>),
       Ins("project_u1", Buf("alpha_proj.u2"), <<>>, <<l.next[i][dir1], dir2>>),
       Ins("project_u1", Buf("alpha_proj.u3"), <<>>, <<l.next[i][dir2], dir1>>),
       Ins("project_u1", Buf("alpha_proj.u4"), <<>>, <<i, dir2>>) >>
    \o matmat_mem(Buf("alpha_proj.u1"), Buf("alpha_proj.u2"), 0)
    \o matmat_mem(Buf("alpha_proj.u1"), Buf("alpha_proj.u3"), 0)
    \o matmat_mem(Buf("alpha_proj.u1"), Buf("alpha_proj.u4"), 1)

\* alpha_proj(l, f, p, i, dir1, dir2): project_u1 stores to pro only
alpha_proj_mem(l, i, dir1, dir2) ==
    << Ins("project_u1", Buf("alpha_proj.u1"), <<>>, <<i, dir1>>),
       Ins("project_u1", Buf("alpha_proj.u2"), <<>>, <<l.next[i][dir1], dir2>>),
       Ins("project_u1", Buf("alpha_proj.u3"), <<>>, <<l.next[i][dir2], dir1>>),
       Ins("project_u1", Buf("alpha_proj.u4"), <<>>, <<i, dir2>>) >>
    \o matmat_mem(Buf("alpha_proj.u1"), Buf("alpha_proj.u2"), 0)
    \o matmat_mem(Buf("alpha_proj.u1"), Buf("alpha_proj.u3"), 1)
    \o matmat_mem(Buf("alpha_proj.u1"), Buf("alpha_proj.u4"), 1)

(***************************************************************************)
(* The smearing routines called on their own on a start configuration,     *)
(* with links of integer components or of components in halves.            *)
(***************************************************************************)
SmearLattices == { <<2, 2, 2>>, <<3, 3>> }

\* unit-norm links with components in halves, stored doubled: the 24 units
\* +-1, +-i s_k and (+-1 +- i s_1 +- i s_2 +- i s_3) / 2
HalfLinkVals ==
    << Vec(<<2, 0, 0, 0>>), Vec(<<0, 2, 0, 0>>), Vec(<<0, 0, 2, 0>>), Vec(<<0, 0, 0, 2>>),
       Vec(<<-2, 0, 0, 0>>), Vec(<<0, -2, 0, 0>>), Vec(<<0, 0, -2, 0>>), Vec(<<0, 0, 0, -2>>),
       Vec(<<1, 1, 1, 1>>), Vec(<<1, 1, 1, -1>>), Vec(<<1, 1, -1, 1>>), Vec(<<1, 1, -1, -1>>),
       Vec(<<1, -1, 1, 1>>), Vec(<<1, -1, 1, -1>>), Vec(<<1, -1, -1, 1>>), Vec(<<1, -1, -1, -1>>),
       Vec(<<-1, 1, 1, 1>>), Vec(<<-1, 1, 1, -1>>), Vec(<<-1, 1, -1, 1>>), Vec(<<-1, 1, -1, -1>>),
       Vec(<<-1, -1, 1, 1>>), Vec(<<-1, -1, 1, -1>>), Vec(<<-1, -1, -1, 1>>), Vec(<<-1, -1, -1, -1>>) >>

\* start configuration for smearing.  half: links in halves (seed 0: all identity);
\* trip: the triplet field is "zero", "constant" or "hot"
SmearFields(l, seed, half, trip) ==
    [ StartFields(l, seed) EXCEPT
        !.unit = IF half THEN 2 ELSE 1,
        !.su2link = IF half
                    THEN [i \in Sites(l) |-> [dir \in Dirs(l) |->
                            IF seed = 0 THEN Pick(HalfLinkVals, 0)
                            ELSE Pick(HalfLinkVals, 7*i + 11*dir + 5*i*dir
                                                    + seed * (3*i + 5*dir + 1))]]
                    ELSE @,
        !.su2triplet = IF trip = "zero" THEN [i \in Sites(l) |-> Vec(<<0, 0, 0>>)]
                       ELSE IF trip = "constant" THEN [i \in Sites(l) |-> Vec(<<2, -4, 6>>)]
                       ELSE [i \in Sites(l) |-> Pick(TripletVals, i*i + 3*i + 1)] ]

InitSmear ==
    \E shape \in SmearLattices, seed \in 0..MaxSeed, half \in BOOLEAN,
       trip \in {"zero", "constant", "hot"} :
        /\ lat = Layout(shape)
        /\ build = [NHIGGS |-> 0, TRIPLET |-> TRUE, U1 |-> FALSE, SINGLET |-> FALSE]
        /\ fld = SmearFields(Layout(shape), seed, half, trip)
        /\ fldOld = SmearFields(Layout(shape), seed, half, trip)
        /\ upd = NoUpdate
        /\ pc = "smear"
        /\ meas = NoMeasure
        /\ measOld = NoMeasure
        /\ dS = 0
        /\ rot = RotIdle
        /\ mag = MagIdle
        /\ call = NoCall

\* smear_link(l, f, smear_dir, res, i, dir)
SmearLink ==
    /\ pc = "smear"
    /\ call.pc = "idle"
    /\ \E i \in Sites(lat), dir \in Dirs(lat), smear_dir \in [Dirs(lat) -> {0, 1}] :
          call' = [fn |-> "smear_link", pc |-> "done", i |-> i, dir |-> dir,
                   smear_dir |-> smear_dir,
                   res |-> smear_link(lat, fld, smear_dir, i, dir)]
    /\ UNCHANGED <<lat, build, fld, fldOld, upd, pc, meas, measOld, dS, rot, mag>>

\* smear_triplet(l, f, smear_dir, res, i)
SmearTriplet ==
    /\ pc = "smear"
    /\ call.pc = "idle"
    /\ \E i \in Sites(lat), smear_dir \in [Dirs(lat) -> {0, 1}] :
          call' = [fn |-> "smear_triplet", pc |-> "done", i |-> i, dir |-> 0,
                   smear_dir |-> smear_dir,
                   res |-> smear_triplet(lat, fld, smear_dir, i)]
    /\ UNCHANGED <<lat, build, fld, fldOld, upd, pc, meas, measOld, dS, rot, mag>>

NextSmear ==
    \/ SmearLink
    \/ SmearTriplet

SpecSmear == InitSmear /\ [][NextSmear]_vars

(***************************************************************************)
(* The routines run on memory: the caller owns the output buffer "out" and *)
(* a second buffer "caller" that it passes to nobody.                      *)
(***************************************************************************)
CallerBufs == ("out" :> Vec(<<9, 9, 9, 9>>)) @@ ("caller" :> Vec(<<7, 7, 7, 7>>))

InitMem ==
    \E shape \in Lattices, b \in Builds, seed \in 0..MaxSeed :
        /\ lat = Layout(shape)
        /\ build = b
        /\ fld = StartFields(Layout(shape), seed)
        /\ fldOld = StartFields(Layout(shape), seed)
        /\ upd = NoUpdate
        /\ pc = "mem"
        /\ meas = NoMeasure
        /\ measOld = NoMeasure
        /\ dS = 0
        /\ rot = RotIdle
        /\ mag = MagIdle
        /\ call = NoCall

\* the call of a routine: its statements run on the memory, the fields and the
\* caller's buffers are what the routine leaves behind
MemCall(fn, args, prog) ==
    LET after(S) ==
            /\ fld' = S.f
            /\ call' = [fn |-> fn, pc |-> "done", args |-> args,
                        res |-> S.b["out"], caller |-> S.b["caller"]]
    IN /\ pc = "mem"
       /\ call.pc = "idle"
       /\ after(Run(lat, params, [f |-> fld, b |-> CallerBufs], prog))
       /\ UNCHANGED <<lat, build, fldOld, upd, pc, meas, measOld, dS, rot, mag>>

\* the call of su2rot or matmat: prep fills the operands, then the routine runs
MemCallProduct(fn, args, prep, prog, second) ==
    LET after(S0, S) ==
            /\ fld' = S.f
            /\ call' = [fn |-> fn, pc |-> "done", args |-> args,
                        res |-> S.b["out"], caller |-> S.b["caller"],
                        firstOld |-> S0.b["out"],
                        second |-> Load(S, second), secondOld |-> Load(S0, second)]
        both(S0) == after(S0, Run(lat, params, S0, prog))
    IN /\ pc = "mem"
       /\ call.pc = "idle"
       /\ both(Run(lat, params, [f |-> fld, b |-> CallerBufs], prep))
       /\ UNCHANGED <<lat, build, fldOld, upd, pc, meas, measOld, dS, rot, mag>>

MemSu2rot ==
    \E i \in Sites(lat), j \in Sites(lat), dir \in Dirs(lat) :
        MemCallProduct("su2rot", <<i, j, dir>>,
                       << Ins("memcpy", Buf("out"), <<Link(i, dir)>>, 0) >>,
                       su2rot_mem(Buf("out"), Link(j, dir)), Link(j, dir))

MemMatmat ==
    /\ build.TRIPLET
    /\ \E i \in Sites(lat), dir1 \in Dirs(lat), dir2 \in Dirs(lat), dag \in {0, 1} :
        MemCallProduct("matmat", <<i, dir1, dir2, dag>>,
                       << Ins("project_u1", Buf("out"), <<>>, <<i, dir1>>),
                          Ins("project_u1", Buf("in2"), <<>>, <<lat.next[i][dir1], dir2>>) >>,
                       matmat_mem(Buf("out"), Buf("in2"), dag), Buf("in2"))

MemSu2plaquette ==
    \E i \in Sites(lat), dir1 \in Dirs(lat), dir2 \in Dirs(lat) :
        /\ dir1 # dir2
        /\ MemCall("su2plaquette", <<i, dir1, dir2>>,
                   su2plaquette_mem(lat, i, dir1, dir2, Buf("out")))

MemCloverSu2 ==
    \E i \in Sites(lat), d1 \in Dirs(lat), d2 \in Dirs(lat) :
        /\ d1 # d2
        /\ MemCall("clover_su2", <<i, d1, d2>>, clover_su2_mem(lat, i, d1, d2, Buf("out")))

MemSu2stapleWilson ==
    \E i \in Sites(lat), dir \in Dirs(lat) :
        MemCall("su2staple_wilson", <<i, dir>>, su2staple_wilson_mem(lat, i, dir, Buf("out")))

MemSu2linkStaple ==
    \E i \in Sites(lat), dir \in Dirs(lat) :
        MemCall("su2link_staple", <<i, dir>>,
                su2link_staple_mem(lat, params, i, dir, Buf("out")))

MemSu2stapleWilsonOnedir ==
    \E i \in Sites(lat), mu \in Dirs(lat), nu \in Dirs(lat), dagger \in {0, 1} :
        MemCall("su2staple_wilson_onedir", <<i, mu, nu, dagger>>,
                su2staple_wilson_onedir_mem(lat, i, mu, nu, dagger, Buf("out")))

MemSmearLink ==
    \E i \in Sites(lat), dir \in Dirs(lat), smear_dir \in [Dirs(lat) -> {0, 1}] :
        MemCall("smear_link", <<i, dir, smear_dir>>,
                smear_link_mem(lat, smear_dir, Buf("out"), i, dir))

MemSmearTriplet ==
    /\ build.TRIPLET
    /\ \E i \in Sites(lat), smear_dir \in [Dirs(lat) -> {0, 1}] :
        MemCall("smear_triplet", <<i, smear_dir>>,
                smear_triplet_mem(lat, smear_dir, Buf("out"), i))

MemAlphaProj ==
    /\ build.TRIPLET
    /\ \E i \in Sites(lat), dir1 \in Dirs(lat), dir2 \in Dirs(lat) :
        /\ dir1 # dir2
        /\ MemCall("alpha_proj", <<i, dir1, dir2>>,
                   alpha_proj_mem(lat, i, dir1, dir2)
                   \o << Ins("memcpy", Buf("out"), <<Buf("alpha_proj.u1")>>, 0) >>)

NextMem ==
    \/ MemSu2rot
    \/ MemMatmat
    \/ MemSu2plaquette
    \/ MemCloverSu2
    \/ MemSu2stapleWilson
    \/ MemSu2linkStaple
    \/ MemSu2stapleWilsonOnedir
    \/ MemSmearLink
    \/ MemSmearTriplet
    \/ MemAlphaProj

SpecMem == InitMem /\ [][NextMem]_vars

(***************************************************************************)
(* matmat on its own: in1 <- in1.in2 or in1.in2^+ for complex 2x2 matrices *)
(* of integer entries, general ones and ones of the SU(2) form             *)
(*     u0 + i u3,  u2 + i u1                                               *)
(*    -u2 + i u1,  u0 - i u3                                               *)
(* of U = u0 I + i (u1 sig1 + u2 sig2 + u3 sig3).                          *)
(***************************************************************************)
\* the 8 doubles of U = u0 I + i (u1 sig1 + u2 sig2 + u3 sig3)
Su2Matrix(u) ==
    [m |-> Vec(<< u[0], u[3], u[2], u[1], (-1) * u[2], u[1], u[0], (-1) * u[3] >>), d |-> 1]

\* general matrices: the 8 with a single entry 1 or i, and four with no zero pattern
GenMats ==
    { [m |-> [k \in 0..7 |-> IF k = n THEN 1 ELSE 0], d |-> 1] : n \in 0..7 }
    \cup { [m |-> Vec(<<1, 2, -1, 3, 2, -2, 1, -3>>), d |-> 1],
           [m |-> Vec(<<0, 1, 2, -1, -2, 3, 1, 1>>), d |-> 1],
           [m |-> Vec(<<2, -1, 0, 3, 1, 1, -2, 2>>), d |-> 1],
           [m |-> Vec(<<-1, -1, 2, 2, 3, 0, 1, -2>>), d |-> 1] }

\* second operands of SU(2) form: the quaternion units and three general vectors
Su2Seconds ==
    { LinkVals[k] : k \in 1..Len(LinkVals) }
    \cup { Vec(<<1, 2, -1, 3>>), Vec(<<2, -1, 1, 1>>), Vec(<<-1, 1, 2, -2>>) }

InitMat ==
    /\ lat = Layout(<<2, 2>>)
    /\ build = [NHIGGS |-> 0, TRIPLET |-> TRUE, U1 |-> FALSE, SINGLET |-> FALSE]
    /\ fld = StartFields(Layout(<<2, 2>>), 0)
    /\ fldOld = StartFields(Layout(<<2, 2>>), 0)
    /\ upd = NoUpdate
    /\ pc = "mat"
    /\ meas = NoMeasure
    /\ measOld = NoMeasure
    /\ dS = 0
    /\ rot = RotIdle
    /\ mag = MagIdle
    /\ \/ \E a \in GenMats, b \in GenMats :
             call = [fn |-> "matmat", pc |-> "ready", su2 |-> FALSE, in1 |-> a, in2 |-> b,
                     u1 |-> Vec(<<0, 0, 0, 0>>), u2 |-> Vec(<<0, 0, 0, 0>>),
                     dag |-> 0, res |-> a]
       \/ \E a \in Su2Vecs, b \in Su2Seconds :
             call = [fn |-> "matmat", pc |-> "ready", su2 |-> TRUE,
                     in1 |-> Su2Matrix(a), in2 |-> Su2Matrix(b), u1 |-> a, u2 |-> b,
                     dag |-> 0, res |-> Su2Matrix(a)]

\* matmat(in1, in2, 0)
Matmat ==
    /\ pc = "mat"
    /\ call.pc = "ready"
    /\ call' = [call EXCEPT !.pc = "done", !.dag = 0, !.res = matmat(call.in1, call.in2, 0)]
    /\ UNCHANGED <<lat, build, fld, fldOld, upd, pc, meas, measOld, dS, rot, mag>>

\* matmat(in1, in2, 1)
MatmatDag ==
    /\ pc = "mat"
    /\ call.pc = "ready"
    /\ call' = [call EXCEPT !.pc = "done", !.dag = 1, !.res = matmat(call.in1, call.in2, 1)]
    /\ UNCHANGED <<lat, build, fld, fldOld, upd, pc, meas, measOld, dS, rot, mag>>

NextMat == Matmat \/ MatmatDag

SpecMat == InitMat /\ [][NextMat]_vars

(***************************************************************************)
(* doubletsq on its own, for doublets of integer components whose sum of   *)
(* squares is even (0.5 * x is then an integer).                           *)
(***************************************************************************)
MaxDoublet == 2

DoubletInputs ==
    { a \in [0..(SU2DB - 1) -> (0 - MaxDoublet)..MaxDoublet] :
         (a[0]*a[0] + a[1]*a[1] + a[2]*a[2] + a[3]*a[3]) % 2 = 0 }

InitDoublet ==
    /\ lat = Layout(<<2, 2>>)
    /\ build = [NHIGGS |-> 1, TRIPLET |-> FALSE, U1 |-> FALSE, SINGLET |-> FALSE]
    /\ fld = StartFields(Layout(<<2, 2>>), 0)
    /\ fldOld = StartFields(Layout(<<2, 2>>), 0)
    /\ upd = NoUpdate
    /\ pc = "doublet"
    /\ meas = NoMeasure
    /\ measOld = NoMeasure
    /\ dS = 0
    /\ rot = RotIdle
    /\ mag = MagIdle
    /\ \E a \in DoubletInputs : call = [fn |-> "doubletsq", pc |-> "ready", a |-> a, res |-> 0]

\* doubletsq(a)
Doubletsq ==
    /\ pc = "doublet"
    /\ call.pc = "ready"
    /\ call' = [call EXCEPT !.pc = "done", !.res = doubletsq(call.a)]
    /\ UNCHANGED <<lat, build, fld, fldOld, upd, pc, meas, measOld, dS, rot, mag>>

NextDoublet == Doubletsq

SpecDoublet == InitDoublet /\ [][NextDoublet]_vars

(***************************************************************************)
(* The Abelian projection at a zero triplet.  A double is then either a    *)
(* number or undefined (NaN: 0.0/0.0 and every sum, difference, product,   *)
(* quotient, atan2, sqrt and fabs with a NaN operand).  The *_nan          *)
(* operators follow the routines statement by statement and tell, for each *)
(* double they write or return, whether it is NaN.                         *)
(***************************************************************************)
\* projector checking the modulus before the division
projector_nan_guarded(adjoint) == [k \in 0..(SU2TRIP - 1) |-> FALSE]

\* projector: proj[k] = 2.0 * a_k / modulus
projector_nan(adjoint) ==
    LET a1 == adjoint[0]
        a2 == adjoint[1]
        a3 == adjoint[2]
        quotient(num, modulussq) == num = 0 /\ modulussq = 0
    IN [k \in 0..(SU2TRIP - 1) |-> quotient(2 * adjoint[k], a1*a1 + a2*a2 + a3*a3)]

\* project_u1: every pro[k] is a sum containing products with hl[0], hl[1], hl[2],
\* hr[0], hr[1] and hr[2]
project_u1_nan(l, f, i, dir) ==
    LET nextsite == l.next[i][dir]
        pro(hl, hr) == [k \in 0..7 |-> \E c \in 0..(SU2TRIP - 1) : hl[c] \/ hr[c]]
    IN pro(projector_nan(f.su2triplet[i]), projector_nan(f.su2triplet[nextsite]))

\* matmat: in1[0], in1[1] are sums of products of a1, b1, c1, d1 with a2, b2, e2, f2;
\* in1[2], in1[3] of a1, b1, c1, d1 with c2, d2, g2, h2; in1[4], in1[5] of e1, f1, g1,
\* h1 with a2, b2, e2, f2; in1[6], in1[7] of e1, f1, g1, h1 with c2, d2, g2, h2
matmat_nan(in1, in2, dag) ==
    LET row1 == in1[0] \/ in1[1] \/ in1[2] \/ in1[3]
        row2 == in1[4] \/ in1[5] \/ in1[6] \/ in1[7]
        a2 == in2[0]
        b2 == in2[1]
        c2 == IF dag # 0 THEN in2[4] ELSE in2[2]
        d2 == IF dag # 0 THEN in2[5] ELSE in2[3]
        e2 == IF dag # 0 THEN in2[2] ELSE in2[4]
        f2 == IF dag # 0 THEN in2[3] ELSE in2[5]
        g2 == in2[6]
        h2 == in2[7]
        col1 == a2 \/ b2 \/ e2 \/ f2
        col2 == c2 \/ d2 \/ g2 \/ h2
    IN Vec(<< row1 \/ col1, row1 \/ col1, row1 \/ col2, row1 \/ col2,
              row2 \/ col1, row2 \/ col1, row2 \/ col2, row2 \/ col2 >>)

\* alpha_proj: atan2(u1[1] + u1[7], u1[0] + u1[6]) * sqrt(betasu2)
alpha_proj_nan(l, f, i, dir1, dir2) ==
    LET alpha(u1) == u1[1] \/ u1[7] \/ u1[0] \/ u1[6]
    IN alpha(matmat_nan(matmat_nan(matmat_nan(project_u1_nan(l, f, i, dir1),
                                              project_u1_nan(l, f, l.next[i][dir1], dir2), 0),
                                   project_u1_nan(l, f, l.next[i][dir2], dir1), 1),
                        project_u1_nan(l, f, i, dir2), 1))

\* magfield: res += alpha or res -= alpha over d1 < d2, both different from dir
magfield_nan(l, f, i, dir) ==
    \E pr \in MagfieldLoop(l, dir) : alpha_proj_nan(l, f, i, pr[1], pr[2])

\* magcharge_cube: res += B2 - B1 over dir
magcharge_cube_nan(l, f, i) ==
    \E dir \in Dirs(l) : magfield_nan(l, f, i, dir) \/ magfield_nan(l, f, l.next[i][dir], dir)

\* measure: mag_charge += charge; mag_charge_abs += fabs(charge) over the sites
measure_nan(l, f) ==
    [mag_charge |-> \E i \in Sites(l) : magcharge_cube_nan(l, f, i),
     mag_charge_abs |-> \E i \in Sites(l) : magcharge_cube_nan(l, f, i)]

NanLattices == { <<2, 2, 2>>, <<3, 3>>, <<3, 2, 2>> }

\* a start configuration whose triplet vanishes at site z (nowhere if z = -1)
NanFields(l, seed, z) ==
    [StartFields(l, seed) EXCEPT
        !.su2triplet = [i \in Sites(l) |-> IF i = z THEN Vec(<<0, 0, 0>>) ELSE @[i]]]

InitNan ==
    \E shape \in NanLattices, seed \in 0..MaxSeed :
      \E z \in Sites(Layout(shape)) \cup {-1} :
        /\ lat = Layout(shape)
        /\ build = [NHIGGS |-> 0, TRIPLET |-> TRUE, U1 |-> FALSE, SINGLET |-> FALSE]
        /\ fld = NanFields(Layout(shape), seed, z)
        /\ fldOld = NanFields(Layout(shape), seed, z)
        /\ upd = NoUpdate
        /\ pc = "nan"
        /\ meas = NoMeasure
        /\ measOld = NoMeasure
        /\ dS = 0
        /\ rot = RotIdle
        /\ mag = MagIdle
        /\ call = NoCall

NanCall(fn, i, dir1, dir2, nan) ==
    /\ pc = "nan"
    /\ call.pc = "idle"
    /\ call' = [fn |-> fn, pc |-> "done", i |-> i, dir1 |-> dir1, dir2 |-> dir2, nan |-> nan]
    /\ UNCHANGED <<lat, build, fld, fldOld, upd, pc, meas, measOld, dS, rot, mag>>

\* project_u1(l, f, i, dir, pro)
NanProjectU1 ==
    \E i \in Sites(lat), dir \in Dirs(lat) :
        NanCall("project_u1", i, dir, dir, project_u1_nan(lat, fld, i, dir))

\* alpha_proj(l, f, p, i, dir1, dir2)
NanAlphaProj ==
    \E i \in Sites(lat), dir1 \in Dirs(lat), dir2 \in Dirs(lat) :
        /\ dir1 # dir2
        /\ NanCall("alpha_proj", i, dir1, dir2, alpha_proj_nan(lat, fld, i, dir1, dir2))

\* magfield(l, f, p, i, dir)
NanMagfield ==
    \E i \in Sites(lat), dir \in Dirs(lat) :
        NanCall("magfield", i, dir, dir, magfield_nan(lat, fld, i, dir))

\* magcharge_cube(l, f, p, i)
NanMagchargeCube ==
    \E i \in Sites(lat) :
        NanCall("magcharge_cube", i, 0, 0, magcharge_cube_nan(lat, fld, i))

\* measure(): the sums mag_charge and mag_charge_abs
NanMeasure ==
    NanCall("measure", 0, 0, 0, measure_nan(lat, fld))

NextNan ==
    \/ NanProjectU1
    \/ NanAlphaProj
    \/ NanMagfield
    \/ NanMagchargeCube
    \/ NanMeasure

SpecNan == InitNan /\ [][NextNan]_vars

(***************************************************************************)
(* The closed forms su2trace4, su2staple_counterwise, su2staple_clockwise  *)
(* called on their own with arbitrary parameter vectors, and su2ptrace and *)
(* su2plaquette on a start configuration.                                  *)
(***************************************************************************)
\* parameter vectors: the four basis vectors (the closed forms are multilinear) and
\* three vectors without zero components
TraceVecs ==
    { Vec(<<1, 0, 0, 0>>), Vec(<<0, 1, 0, 0>>), Vec(<<0, 0, 1, 0>>), Vec(<<0, 0, 0, 1>>),
      Vec(<<1, 2, -1, 3>>), Vec(<<2, -1, 1, 1>>), Vec(<<-1, 1, 2, -2>>) }

InitTrace ==
    \E seed \in 0..MaxSeed :
        /\ lat = Layout(<<2, 2, 2>>)
        /\ build = [NHIGGS |-> 0, TRIPLET |-> FALSE, U1 |-> FALSE, SINGLET |-> FALSE]
        /\ fld = StartFields(Layout(<<2, 2, 2>>), seed)
        /\ fldOld = StartFields(Layout(<<2, 2, 2>>), seed)
        /\ upd = NoUpdate
        /\ pc = "trace"
        /\ meas = NoMeasure
        /\ measOld = NoMeasure
        /\ dS = 0
        /\ rot = RotIdle
        /\ mag = MagIdle
        /\ call = NoCall

TraceCall(fn, u, res) ==
    /\ pc = "trace"
    /\ call.pc = "idle"
    /\ call' = [fn |-> fn, pc |-> "done", u |-> u, res |-> res]
    /\ UNCHANGED <<lat, build, fld, fldOld, upd, pc, meas, measOld, dS, rot, mag>>

\* su2trace4(u1, u2, u3, u4)
Su2trace4 ==
    \E u1 \in TraceVecs, u2 \in TraceVecs, u3 \in TraceVecs, u4 \in TraceVecs :
        TraceCall("su2trace4", <<u1, u2, u3, u4>>, su2trace4(u1, u2, u3, u4))

\* su2staple_counterwise(V, u1, u2, u3)
Su2stapleCounterwise ==
    \E u1 \in TraceVecs, u2 \in TraceVecs, u3 \in TraceVecs :
        TraceCall("su2staple_counterwise", <<u1, u2, u3>>, su2staple_counterwise(u1, u2, u3))

\* su2staple_clockwise(V, u1, u2, u3)
Su2stapleClockwise ==
    \E u1 \in TraceVecs, u2 \in TraceVecs, u3 \in TraceVecs :
        TraceCall("su2staple_clockwise", <<u1, u2, u3>>, su2staple_clockwise(u1, u2, u3))

\* su2ptrace(l, f, i, dir1, dir2) and su2plaquette(l, f, i, dir1, dir2, u1)
Su2ptrace ==
    \E i \in Sites(lat), dir1 \in Dirs(lat), dir2 \in Dirs(lat) :
        /\ dir1 # dir2
        /\ TraceCall("su2ptrace", <<i, dir1, dir2>>,
                     [trace |-> su2ptrace(lat, fld, i, dir1, dir2),
                      plaquette |-> su2plaquette(lat, fld, i, dir1, dir2)])

\* hopping_trace(phi1, u, phi2)
HoppingTrace ==
    \E phi1 \in TraceVecs, u \in TraceVecs, phi2 \in TraceVecs :
        TraceCall("hopping_trace", <<phi1, u, phi2>>, hopping_trace(phi1, u, phi2))

\* hopping_trace_su2u1(phi1, u, phi2, a)
HoppingTraceSu2u1 ==
    \E phi1 \in TraceVecs, u \in TraceVecs, phi2 \in TraceVecs, a \in U1Vals :
        TraceCall("hopping_trace_su2u1", <<phi1, u, phi2, a>>,
                  hopping_trace_su2u1(phi1, u, phi2, a))

NextTrace ==
    \/ Su2trace4
    \/ Su2stapleCounterwise
    \/ Su2stapleClockwise
    \/ Su2ptrace
    \/ HoppingTrace
    \/ HoppingTraceSu2u1

SpecTrace == InitTrace /\ [][NextTrace]_vars

(***************************************************************************)
(* The covariant derivatives called on configurations that are constant    *)
(* (identity links, zero angles, one scalar value everywhere) except at    *)
(* one site z, where the scalars, the links and the angles differ.         *)
(***************************************************************************)
CovLattices == { <<3, 3>>, <<2, 2, 2>> }

CovBuilds ==
    { [NHIGGS |-> 1, TRIPLET |-> TRUE, U1 |-> FALSE, SINGLET |-> FALSE],
      [NHIGGS |-> 1, TRIPLET |-> TRUE, U1 |-> TRUE, SINGLET |-> FALSE] }

\* scalar values whose sum of squares is even (0.5 * x is then an integer)
CovDoublets ==
    { Vec(<<2, 0, 0, 0>>), Vec(<<1, -1, 2, -2>>), Vec(<<0, 2, -2, 0>>), Vec(<<3, 1, 1, -1>>) }
CovTriplets ==
    { Vec(<<0, 0, 2>>), Vec(<<1, -1, 2>>), Vec(<<2, -4, 6>>), Vec(<<1, 1, 0>>) }

CovFields(l, phi, sig, z) ==
    [ StartFields(l, 0) EXCEPT
        !.su2doublet = [i \in Sites(l) |-> IF i = z THEN Vec(<<4, 2, 0, -2>>) ELSE phi],
        !.su2triplet = [i \in Sites(l) |-> IF i = z THEN Vec(<<0, -4, 2>>) ELSE sig],
        !.su2link = [i \in Sites(l) |-> [dir \in Dirs(l) |->
                        IF i = z THEN Pick(LinkVals, dir + 1) ELSE Vec(<<1, 0, 0, 0>>)]],
        !.u1link = [i \in Sites(l) |-> [dir \in Dirs(l) |-> IF i = z THEN 1 ELSE 0]] ]

InitCov ==
    \E shape \in CovLattices, b \in CovBuilds, phi \in CovDoublets, sig \in CovTriplets :
      \E z \in Sites(Layout(shape)) \cup {-1} :
        /\ lat = Layout(shape)
        /\ build = b
        /\ fld = CovFields(Layout(shape), phi, sig, z)
        /\ fldOld = CovFields(Layout(shape), phi, sig, z)
        /\ upd = NoUpdate
        /\ pc = "cov"
        /\ meas = NoMeasure
        /\ measOld = NoMeasure
        /\ dS = 0
        /\ rot = RotIdle
        /\ mag = MagIdle
        /\ call = NoCall

CovCall(fn, i, res) ==
    /\ pc = "cov"
    /\ call.pc = "idle"
    /\ call' = [fn |-> fn, pc |-> "done", i |-> i, res |-> res]
    /\ UNCHANGED <<lat, build, fld, fldOld, upd, pc, meas, measOld, dS, rot, mag>>

\* covariant_doublet(l, f, p, f->su2doublet, i)
CovariantDoublet ==
    \E i \in Sites(lat) :
        CovCall("covariant_doublet", i, covariant_doublet(lat, fld, params, fld.su2doublet, i))

\* covariant_triplet(l, f, p, i)
CovariantTriplet ==
    \E i \in Sites(lat) :
        CovCall("covariant_triplet", i, covariant_triplet(lat, fld, params, i))

NextCov ==
    \/ CovariantDoublet
    \/ CovariantTriplet

SpecCov == InitCov /\ [][NextCov]_vars

(***************************************************************************)
(* higgspotential called at a site holding a pair of doublets.             *)
(***************************************************************************)
MaxPot == 1

\* doublets with even components (0.5 * x is then an integer)
PotDoublets == { a \in [0..(SU2DB - 1) -> (0 - MaxPot)..MaxPot] : TRUE }
PotDoublet(a) == [k \in 0..(SU2DB - 1) |-> 2 * a[k]]

PotFields(l, h1, h2, i) ==
    [ StartFields(l, 1) EXCEPT !.su2doublet[i] = h1, !.doublet2[i] = h2 ]

InitPot ==
    \E a1 \in PotDoublets, a2 \in PotDoublets, i \in {3} :
        /\ lat = Layout(<<2, 2>>)
        /\ build = [NHIGGS |-> 2, TRIPLET |-> FALSE, U1 |-> FALSE, SINGLET |-> FALSE]
        /\ fld = PotFields(Layout(<<2, 2>>), PotDoublet(a1), PotDoublet(a2), i)
        /\ fldOld = PotFields(Layout(<<2, 2>>), PotDoublet(a1), PotDoublet(a2), i)
        /\ upd = NoUpdate
        /\ pc = "pot"
        /\ meas = NoMeasure
        /\ measOld = NoMeasure
        /\ dS = 0
        /\ rot = RotIdle
        /\ mag = MagIdle
        /\ call = [fn |-> "none", pc |-> "idle", i |-> i]

\* higgspotential(f, p, i): the value returned, with the locals f11, f22, R, I
Higgspotential ==
    /\ pc = "pot"
    /\ call.pc = "idle"
    /\ call' = [fn |-> "higgspotential", pc |-> "done", i |-> call.i,
                f11 |-> doubletsq(fld.su2doublet[call.i]),
                f22 |-> doubletsq(fld.doublet2[call.i]),
                R |-> Re_f12(fld.su2doublet[call.i], fld.doublet2[call.i]),
                I |-> Im_f12(fld.su2doublet[call.i], fld.doublet2[call.i]),
                res |-> higgspotential(fld, params, call.i)]
    /\ UNCHANGED <<lat, build, fld, fldOld, upd, pc, meas, measOld, dS, rot, mag>>

NextPot == Higgspotential

SpecPot == InitPot /\ [][NextPot]_vars

(***************************************************************************)
(* su2u1.c: smear_fields, from the fields f into the blocked fields f_b.   *)
(* An entry of f_b holds a link as the record [m, dsq, paths] of           *)
(* smear_link and a triplet as the record [m, d] of smear_triplet; a       *)
(* plain vector v is the record with dsq = 1, paths = 1 (resp. d = 1).     *)
(***************************************************************************)
PlainLink(v) == [m |-> v, dsq |-> 1, paths |-> 1]
PlainTriplet(v) == [m |-> v, d |-> 1]

\* the site is left out: block_dir[dir] && l->coords[i][dir] % 2 != 0 for some dir
smear_skip(l, block_dir, i) ==
    \E dir \in Dirs(l) : block_dir[dir] # 0 /\ Coord(l.L, i, dir) % 2 # 0

\* smear_fields smearing at every site
smear_fields_noskip(l, f, f_b, block_dir) ==
    [ f_b EXCEPT
        !.su2link = [i \in Sites(l) |-> [dir \in Dirs(l) |->
            IF block_dir[dir] # 0 THEN smear_link(l, f, block_dir, i, dir)
            ELSE PlainLink(f.su2link[i][dir])]],
        !.u1link = [i \in Sites(l) |-> [dir \in Dirs(l) |->
            IF build.U1 /\ block_dir[dir] = 0 THEN f.u1link[i][dir] ELSE @[i][dir]]],
        !.su2triplet = [i \in Sites(l) |->
            IF build.TRIPLET THEN smear_triplet(l, f, block_dir, i) ELSE @[i]] ]

\* smear all fields and store in f_b; the stores of different sites and
\* directions go to different entries of f_b and all loads are from f
smear_fields(l, f, f_b, block_dir) ==
    [ f_b EXCEPT
        !.su2link = [i \in Sites(l) |-> [dir \in Dirs(l) |->
            IF smear_skip(l, block_dir, i) THEN @[i][dir]
            ELSE IF block_dir[dir] # 0 THEN smear_link(l, f, block_dir, i, dir)
            ELSE PlainLink(f.su2link[i][dir])]],
        !.u1link = [i \in Sites(l) |-> [dir \in Dirs(l) |->
            IF ~smear_skip(l, block_dir, i) /\ build.U1 /\ block_dir[dir] = 0
            THEN f.u1link[i][dir] ELSE @[i][dir]]],
        !.su2triplet = [i \in Sites(l) |->
            IF ~smear_skip(l, block_dir, i) /\ build.TRIPLET
            THEN smear_triplet(l, f, block_dir, i) ELSE @[i]] ]

BlockLattices == { <<4, 2>>, <<2, 2, 2>>, <<3, 3>> }

\* the contents of f_b before the call: every entry different from its neighbours
BlockedBefore(l) ==
    [ su2link    |-> [i \in Sites(l) |-> [dir \in Dirs(l) |-> PlainLink(Vec(<<9, i, dir, 9>>))]],
      u1link     |-> [i \in Sites(l) |-> [dir \in Dirs(l) |-> 10 + 4 * i + dir]],
      su2doublet |-> [i \in Sites(l) |-> Vec(<<8, i, 8, 8>>)],
      doublet2   |-> [i \in Sites(l) |-> Vec(<<6, 6, i, 6>>)],
      su2triplet |-> [i \in Sites(l) |-> PlainTriplet(Vec(<<7, i, 7>>))] ]

InitBlock ==
    \E shape \in BlockLattices, b \in Builds, seed \in 0..MaxSeed :
        /\ lat = Layout(shape)
        /\ build = b
        /\ fld = StartFields(Layout(shape), seed)
        /\ fldOld = StartFields(Layout(shape), seed)
        /\ upd = NoUpdate
        /\ pc = "block"
        /\ meas = NoMeasure
        /\ measOld = NoMeasure
        /\ dS = 0
        /\ rot = RotIdle
        /\ mag = MagIdle
        /\ call = NoCall

\* smear_fields(l, f, f_b, block_dir)
SmearFieldsCall ==
    /\ pc = "block"
    /\ call.pc = "idle"
    /\ \E block_dir \in [Dirs(lat) -> {0, 1}] :
          call' = [fn |-> "smear_fields", pc |-> "done", block_dir |-> block_dir,
                   f_b |-> smear_fields(lat, fld, BlockedBefore(lat), block_dir)]
    /\ UNCHANGED <<lat, build, fld, fldOld, upd, pc, meas, measOld, dS, rot, mag>>

NextBlock == SmearFieldsCall

SpecBlock == InitBlock /\ [][NextBlock]_vars

(***************************************************************************)
(* measure.c: the label file written by print_labels and the line of       *)
(* values measure writes, as the preprocessor leaves them for a build b.   *)
(* A column is named by the expression handed to fprintf.                  *)
(***************************************************************************)
\* k = 1; fprintf(f, "%d <text>\n", k); k++; for each text in turn
Numbered(texts) == [k \in 1..Len(texts) |-> [k |-> k, text |-> texts[k]]]

print_labels(b) ==
    Numbered(
        << "weight", "muca param", "action", "SU(2) Wilson" >>
        \o (IF b.NHIGGS > 0
            THEN << "hopping_phi (avg over directions)", "phi^2", "phi^4" >> ELSE <<>>)
        \o (IF b.NHIGGS = 2
            THEN << "hopping_phi2 (avg over directions)", "phi2^2", "phi2^4",
                    "R = Re phi1^+ phi2", "I = Im phi1^+ phi2" >> ELSE <<>>)
        \o (IF b.TRIPLET
            THEN << "hopping_Sigma (avg over directions)", "Sigma^2", "Sigma^4" >> ELSE <<>>)
        \o (IF b.NHIGGS > 0 /\ b.TRIPLET THEN << "phi^2 Sigma^2" >> ELSE <<>>)
        \o (IF b.U1 THEN << "U(1) Wilson" >> ELSE <<>>)
        \o (IF b.TRIPLET
            THEN << "total magnetic charge density", "number of magnetic monopoles" >>
            ELSE <<>>)
        \o (IF b.SINGLET
            THEN << "S", "S^2", "S^3", "S^4" >>
                 \o (IF b.NHIGGS = 1 THEN << "S phi^2", "S^2 phi^2" >> ELSE <<>>)
            ELSE <<>>))

\* for (db=0; db<NHIGGS; db++) fprintf(file, "%g %g %g ", hopping_phi[db]/vol, ...)
doublet_columns(b) ==
    Flatten([n \in 1..b.NHIGGS |->
                << [expr |-> "hopping_phi/vol", db |-> n - 1],
                   [expr |-> "phi2/vol", db |-> n - 1],
                   [expr |-> "phi4/vol", db |-> n - 1] >>])

Column(expr) == [expr |-> expr, db |-> 0]

\* the line of measure with the U(1) Wilson column written after the charges
measure_line_u1last(b, rank) ==
    IF rank # 0 THEN <<>>
    ELSE << Column("weight"), Column("muca_param") >>
         \o << Column("action"), Column("wilson/vol") >>
         \o doublet_columns(b)
         \o (IF b.NHIGGS = 2 THEN << Column("phi12.re/vol"), Column("phi12.im/vol") >> ELSE <<>>)
         \o (IF b.TRIPLET
             THEN << Column("hopping_Sigma/vol"), Column("Sigma2/vol"), Column("Sigma4/vol") >>
                  \o (IF b.NHIGGS > 0 THEN << Column("phi2Sigma2/vol") >> ELSE <<>>)
             ELSE <<>>)
         \o (IF b.TRIPLET THEN << Column("mag_charge"), Column("mag_charge_abs") >> ELSE <<>>)
         \o (IF b.U1 THEN << Column("u1wilson/vol") >> ELSE <<>>)
         \o (IF b.SINGLET
             THEN << Column("singlet"), Column("singlet2"), Column("singlet3"),
                     Column("singlet4") >>
                  \o (IF b.NHIGGS = 1 THEN << Column("Sphisq"), Column("S2phisq") >> ELSE <<>>)
             ELSE <<>>)

\* the values measure writes on one line: if (!l->rank) { fprintf ... }
measure_line(b, rank) ==
    IF rank # 0 THEN <<>>
    ELSE << Column("weight"), Column("muca_param") >>
         \o << Column("action"), Column("wilson/vol") >>
         \o doublet_columns(b)
         \o (IF b.NHIGGS = 2 THEN << Column("phi12.re/vol"), Column("phi12.im/vol") >> ELSE <<>>)
         \o (IF b.TRIPLET
             THEN << Column("hopping_Sigma/vol"), Column("Sigma2/vol"), Column("Sigma4/vol") >>
                  \o (IF b.NHIGGS > 0 THEN << Column("phi2Sigma2/vol") >> ELSE <<>>)
             ELSE <<>>)
         \o (IF b.U1 THEN << Column("u1wilson/vol") >> ELSE <<>>)
         \o (IF b.TRIPLET THEN << Column("mag_charge"), Column("mag_charge_abs") >> ELSE <<>>)
         \o (IF b.SINGLET
             THEN << Column("singlet"), Column("singlet2"), Column("singlet3"),
                     Column("singlet4") >>
                  \o (IF b.NHIGGS = 1 THEN << Column("Sphisq"), Column("S2phisq") >> ELSE <<>>)
             ELSE <<>>)

\* every combination of the feature flags
AllBuilds == [NHIGGS : 0..2, TRIPLET : BOOLEAN, U1 : BOOLEAN, SINGLET : BOOLEAN]

NoOutput == [fn |-> "output", pc |-> "idle", rank |-> 0,
             labels |-> <<>>, line |-> <<>>, labelled |-> FALSE, measured |-> FALSE]

InitOut ==
    \E b \in AllBuilds, rank \in {0, 1} :
        /\ lat = Layout(<<2, 2>>)
        /\ build = b
        /\ fld = StartFields(Layout(<<2, 2>>), 0)
        /\ fldOld = StartFields(Layout(<<2, 2>>), 0)
        /\ upd = NoUpdate
        /\ pc = "out"
        /\ meas = NoMeasure
        /\ measOld = NoMeasure
        /\ dS = 0
        /\ rot = RotIdle
        /\ mag = MagIdle
        /\ call = [NoOutput EXCEPT !.rank = rank]

\* print_labels()
PrintLabels ==
    /\ pc = "out"
    /\ ~call.labelled
    /\ call' = [call EXCEPT !.labels = print_labels(build), !.labelled = TRUE]
    /\ UNCHANGED <<lat, build, fld, fldOld, upd, pc, meas, measOld, dS, rot, mag>>

\* measure(file, l, f, p, w): the line written to file
MeasureLine ==
    /\ pc = "out"
    /\ ~call.measured
    /\ call' = [call EXCEPT !.line = measure_line(build, call.rank), !.measured = TRUE]
    /\ UNCHANGED <<lat, build, fld, fldOld, upd, pc, meas, measOld, dS, rot, mag>>

NextOut ==
    \/ PrintLabels
    \/ MeasureLine

SpecOut == InitOut /\ [][NextOut]_vars

(***************************************************************************)
(* measure.c: measure_local run by R MPI ranks.  Every rank fills its      *)
(* arrays; the ranks other than 0 send them to rank 0 with blocking sends, *)
(* rank 0 writes its own records, then receives and writes those of the    *)
(* ranks 1..R-1.  A blocking send may return as soon as the message is     *)
(* buffered (eager) or only when the receive has matched it (rendezvous).  *)
(* call.rk[q] is the memory of rank q, call.net[q] the messages of rank q  *)
(* on their way to rank 0, call.file the records written.                  *)
(***************************************************************************)
MaxRanks == 3

\* the tags of the sends of a rank, in program order: tag = 0; ...; tag++
send_tags(b) == IF b.TRIPLET THEN << 0, 1, 2 >> ELSE << 0 >>

\* the tags of the receives with the last two exchanged
recv_tags_swapped(b) == IF b.TRIPLET THEN << 0, 2, 1 >> ELSE << 0 >>

\* the tags of the receives of rank 0 from one rank, in program order
recv_tags(b) == IF b.TRIPLET THEN << 0, 1, 2 >> ELSE << 0 >>

\* the arrays handed to the k-th send and to the k-th receive
gather_buffers == << "coord_offset", "Sigma2", "magcharge" >>

\* l->offset of rank q: the ranks are slabs along direction 0
RankOffset(l, q) == [dir \in Dirs(l) |-> IF dir = 0 THEN q * l.L[0] ELSE 0]

\* the lattice of every rank, and the start configuration held by rank q
GatherLattice == Layout(<<2, 2, 2>>)
RankSeed(seed, q) == (seed + q) % (MaxSeed + 1)

\* the arrays Sigma2, magcharge of measure_local on each start configuration
RankMeasured ==
    [sd \in 0..MaxSeed |-> measure_local(GatherLattice, StartFields(GatherLattice, sd), params)]

\* the memory of a rank after the loop over its sites
gather_arrays(l, sd, q) ==
    [ coord_offset |-> RankOffset(l, q),
      Sigma2       |-> IF build.TRIPLET THEN RankMeasured[sd].Sigma2 ELSE <<>>,
      magcharge    |-> IF build.TRIPLET THEN RankMeasured[sd].magcharge ELSE <<>> ]

\* the records rank 0 writes for the arrays in its memory: the coordinates
\* l->coords[i][dir] + coord_offset[dir], then the measurements of site i
gather_records(l, mem) ==
    [n \in 1..l.sites |->
        [ coords |-> [dir \in Dirs(l) |-> Coord(l.L, n - 1, dir) + mem.coord_offset[dir]],
          meas   |-> IF build.TRIPLET
                     THEN << mem.Sigma2[n - 1], mem.magcharge[n - 1] >> ELSE <<>> ]]

GatherRanks == 0..(call.R - 1)

InitGather ==
    \E b \in Builds, seed \in 0..MaxSeed, R \in 1..MaxRanks, mode \in {"eager", "rendezvous"} :
        /\ lat = GatherLattice
        /\ build = b
        /\ fld = StartFields(GatherLattice, seed)
        /\ fldOld = StartFields(GatherLattice, seed)
        /\ upd = NoUpdate
        /\ pc = "gather"
        /\ meas = NoMeasure
        /\ measOld = NoMeasure
        /\ dS = 0
        /\ rot = RotIdle
        /\ mag = MagIdle
        /\ call = [ fn |-> "measure_local", pc |-> "running", R |-> R, seed |-> seed,
                    mode |-> mode,
                    rk |-> [q \in 0..(R - 1) |->
                              [at |-> "compute", k |-> 1, r |-> 0,
                               mem |-> [coord_offset |-> <<>>, Sigma2 |-> <<>>,
                                        magcharge |-> <<>>]]],
                    net |-> [q \in 0..(R - 1) |-> <<>>],
                    matched |-> <<>>,
                    file |-> <<>> ]

GatherFrame == UNCHANGED <<lat, build, fld, fldOld, upd, pc, meas, measOld, dS, rot, mag>>

\* the loop over the sites of rank q, fopen on rank 0, coord_offset = l->offset
GatherCompute(q) ==
    /\ pc = "gather"
    /\ call.rk[q].at = "compute"
    /\ call' = [call EXCEPT
                  !.rk[q].mem = gather_arrays(lat, RankSeed(call.seed, q), q),
                  !.rk[q].at = IF q # 0 THEN "send" ELSE "write"]
    /\ GatherFrame

\* MPI_Send(&buffer, ..., 0, tag, MPI_COMM_WORLD) on rank q # 0: the message is posted
GatherSend(q) ==
    /\ pc = "gather"
    /\ q # 0
    /\ call.rk[q].at = "send"
    /\ call' = [call EXCEPT
                  !.net[q] = Append(@, [src |-> q, tag |-> send_tags(build)[call.rk[q].k],
                                        n |-> call.rk[q].k,
                                        data |-> call.rk[q].mem[gather_buffers[call.rk[q].k]]]),
                  !.rk[q].at = "sending"]
    /\ GatherFrame

\* MPI_Send returns; tag++
GatherSendReturn(q) ==
    /\ pc = "gather"
    /\ call.rk[q].at = "sending"
    /\ \/ call.mode = "eager"
       \/ \A m \in 1..Len(call.net[q]) : call.net[q][m].n # call.rk[q].k
    /\ call' = [call EXCEPT
                  !.rk[q].k = @ + 1,
                  !.rk[q].at = IF call.rk[q].k = Len(send_tags(build)) THEN "done" ELSE "send"]
    /\ GatherFrame

\* the first message of s with the tag t, 0 if there is none
FirstMatch(s, t) ==
    IF \E m \in 1..Len(s) : s[m].tag = t
    THEN CHOOSE m \in 1..Len(s) : s[m].tag = t /\ \A m2 \in 1..(m - 1) : s[m2].tag # t
    ELSE 0

\* MPI_Recv(&buffer, ..., r, tag, MPI_COMM_WORLD, MPI_STATUS_IGNORE) on rank 0; tag++
GatherRecv ==
    /\ pc = "gather"
    /\ call.rk[0].at = "recv"
    /\ LET r == call.rk[0].r
           k == call.rk[0].k
           m == FirstMatch(call.net[r], recv_tags(build)[k])
       IN /\ m # 0
          /\ call' = [call EXCEPT
                        !.net[r] = [x \in 1..(Len(@) - 1) |-> IF x < m THEN @[x] ELSE @[x + 1]],
                        !.rk[0].mem[gather_buffers[k]] = call.net[r][m].data,
                        !.matched = Append(@, [src |-> r, tag |-> call.net[r][m].tag,
                                               n |-> call.net[r][m].n, k |-> k]),
                        !.rk[0].k = IF k = Len(recv_tags(build)) THEN 1 ELSE k + 1,
                        !.rk[0].at = IF k = Len(recv_tags(build)) THEN "write" ELSE "recv"]
    /\ GatherFrame

\* for (i = 0; i < l->sites; i++) { fwrite(coords ...); fwrite(meas ...); } and r++
GatherWrite ==
    /\ pc = "gather"
    /\ call.rk[0].at = "write"
    /\ call' = [call EXCEPT
                  !.file = @ \o gather_records(lat, call.rk[0].mem),
                  !.rk[0].r = @ + 1,
                  !.rk[0].at = IF call.rk[0].r + 1 < call.R THEN "recv" ELSE "close"]
    /\ GatherFrame

\* fclose(file) on rank 0
GatherClose ==
    /\ pc = "gather"
    /\ call.rk[0].at = "close"
    /\ call' = [call EXCEPT !.rk[0].at = "done"]
    /\ GatherFrame

GatherStep(q) ==
    /\ q \in DOMAIN call.rk
    /\ \/ GatherCompute(q)
       \/ GatherSend(q)
       \/ GatherSendReturn(q)
       \/ (q = 0 /\ GatherRecv)
       \/ (q = 0 /\ GatherWrite)
       \/ (q = 0 /\ GatherClose)

NextGather == \E q \in 0..(MaxRanks - 1) : GatherStep(q)

\* every rank is a process of its own and keeps running
SpecGather ==
    InitGather /\ [][NextGather]_vars /\ \A q \in 0..(MaxRanks - 1) : WF_vars(GatherStep(q))

(***************************************************************************)
(* Properties.                                                             *)
(***************************************************************************)
\* C1: after su2rot(U1, U2) the norm su2sqr(U1) is su2sqr(old U1) * su2sqr(U2),
\* with U2 passed as is or conjugated; unit-norm inputs give a unit-norm result.
C1_NormMultiplicative ==
    rot.pc = "done" =>
        /\ su2sqr(rot.u1) = su2sqr(rot.old) * su2sqr(rot.u2)
        /\ (su2sqr(rot.old) = 1 /\ su2sqr(rot.u2) = 1 => su2sqr(rot.u1) = 1)

\* a conjugated product of two vectors that are not of unit norm
C1_Witness ==
    /\ rot.pc = "done"
    /\ rot.mode = "conj"
    /\ su2sqr(rot.old) = 3
    /\ su2sqr(rot.u2) = 2
    /\ rot.u2[1] # 0
    /\ su2sqr(rot.u1) = 6

\* every link at every site and direction is the identity (1,0,0,0)
AllIdentity(l, f) ==
    \A i \in Sites(l), dir \in Dirs(l) : f.su2link[i][dir] = Vec(<<1, 0, 0, 0>>)

\* C2: when every link is the identity, su2ptrace(i, d1, d2) is exactly 2 for every
\* site and every pair d1 # d2, and su2staple_wilson(i, dir) is (2*(D-1), 0, 0, 0)
\* for every site and every dir, in every dimension D >= 2.
C2_ColdStart ==
    AllIdentity(lat, fld) =>
        /\ \A i \in Sites(lat), d1 \in Dirs(lat), d2 \in Dirs(lat) :
              d1 # d2 => su2ptrace(lat, fld, i, d1, d2) = 2
        /\ \A i \in Sites(lat), dir \in Dirs(lat) :
              su2staple_wilson(lat, fld, i, dir) = Vec(<<2 * (lat.dim - 1), 0, 0, 0>>)

\* the cold start in three dimensions, measured: the Wilson action vanishes
C2_Witness ==
    /\ AllIdentity(lat, fld)
    /\ lat.dim = 3
    /\ pc = "measured"
    /\ meas.wilson = 0

\* the elementary plaquettes: a base site and an unordered pair d1 < d2 of directions
C3_Plaquettes(l) ==
    {pl \in Sites(l) \X Dirs(l) \X Dirs(l) : pl[2] < pl[3]}

\* the links: a site and a direction
C3_Links(l) == Sites(l) \X Dirs(l)

\* how often the site loop of measure with the loops of local_su2wilson visits pl
C3_Visits(l, pl) ==
    Cardinality({v \in Sites(l) \X WilsonLoop(l) :
                    v[1] = pl[1] /\ {v[2][1], v[2][2]} = {pl[2], pl[3]}})

\* the total action with every plaquette, every forward hopping term and every
\* on-site term taken once
C3_TotalAction(l, f, p) ==
    SumOn([pl \in C3_Plaquettes(l) |->
              p.betasu2 * (1 - Half(su2ptrace(l, f, pl[1], pl[2], pl[3])))
              + (IF build.U1 THEN p.betau1 * (1 - u1ptrace(l, f, pl[1], pl[2], pl[3]))
                 ELSE 0)], C3_Plaquettes(l))
    + SumOn([i \in Sites(l) |-> higgspotential(f, p, i)], Sites(l))
    + SumOn([lk \in C3_Links(l) |->
              SumOn([db \in 0..(build.NHIGGS - 1) |->
                        2 * doubletsq(DoubletField(f, db)[lk[1]])
                        + hopping_doublet_forward(l, f, p, DoubletField(f, db),
                                                  lk[1], lk[2])],
                    0..(build.NHIGGS - 1))
              + (IF build.TRIPLET
                 THEN 2 * tripletsq(f.su2triplet[lk[1]])
                      + hopping_triplet_forward(l, f, p, lk[1], lk[2])
                 ELSE 0)
              + (IF build.SINGLET
                 THEN f.singlet[lk[1]][0] * f.singlet[lk[1]][0]
                      - f.singlet[lk[1]][0] * f.singlet[l.next[lk[1]][lk[2]]][0]
                 ELSE 0)], C3_Links(l))

\* C3: on a periodic lattice the sum of action_local(i) over all sites contains each
\* elementary plaquette (base site, unordered pair of directions) exactly once and
\* each forward hopping term (site, direction, species) exactly once.
C3_CountedOnce ==
    pc \in {"measured", "remeasured"} =>
        /\ \A pl \in C3_Plaquettes(lat) : C3_Visits(lat, pl) = 1
        /\ meas.action = C3_TotalAction(lat, fld, params)

\* a measured hot start in three dimensions with a doublet, the triplet, U(1) and
\* the singlet
C3_Witness ==
    /\ pc = "measured"
    /\ lat.dim = 3
    /\ build.NHIGGS = 1 /\ build.TRIPLET /\ build.U1 /\ build.SINGLET
    /\ meas.wilson > 0
    /\ ~AllIdentity(lat, fld)

\* the sites of which the local action contains the link U_dir(i)
C4_Sites(l, i, dir) == {i} \cup {l.prev[i][dir2] : dir2 \in OtherDirs(l, dir)}

\* the local action summed over the sites S
C4_ActionOn(l, f, p, S) == SumOn([j \in S |-> action_local(l, f, p, j)], S)

C5_LinkActionChange ==
    (pc = "remeasured" /\ upd.kind \in {"su2link", "u1link"}) =>
        dS = meas.action - measOld.action

\* a replaced SU(2) link that changes the total action, with the triplet and a doublet
C5_Witness ==
    /\ pc = "remeasured"
    /\ upd.kind = "su2link"
    /\ build.TRIPLET /\ build.NHIGGS = 1
    /\ dS # 0
    /\ meas.action # measOld.action

\* C6: replacing the scalar at a single site i changes localact_doublet(phi, i), for
\* the doublet species replaced, and localact_triplet(i), for the triplet, by the
\* change of the sum of action_local over all sites.
C6_ScalarActionChange ==
    (pc = "remeasured" /\ upd.kind \in {"su2doublet", "doublet2", "su2triplet"}) =>
        dS = meas.action - measOld.action

\* a replaced triplet that changes the total action, with a doublet present
C6_Witness ==
    /\ pc = "remeasured"
    /\ upd.kind = "su2triplet"
    /\ build.NHIGGS = 1
    /\ dS # 0
    /\ meas.action # measOld.action

\* C7: for every site i, every pair of directions d1 # d2 and every configuration
\* with nonzero triplets, alpha_proj(i, d1, d2) = -alpha_proj(i, d2, d1), both
\* orderings evaluated on the same configuration.
C7_Antisymmetric ==
    build.TRIPLET =>
        \A i \in Sites(lat), d1 \in Dirs(lat), d2 \in Dirs(lat) :
            d1 # d2 => alpha_proj(lat, fld, params, i, d1, d2)
                       = 0 - alpha_proj(lat, fld, params, i, d2, d1)

\* 2 + h.sigma for the normalised adjoint field h = 2 a / |a|: four times the
\* projector P = (1 + a.sigma / |a|) / 2
C8_Projector(h) ==
    [ m |-> Vec(<< 2 + h[2], 0, h[0], 0 - h[1], h[0], h[1], 2 - h[2], 0 >>), d |-> 4 ]

\* the link u[0] + i (u[1] sigma_1 + u[2] sigma_2 + u[3] sigma_3) as a complex matrix
C8_Link(u) ==
    [ m |-> Vec(<< u[0], u[3], u[2], u[1], 0 - u[2], u[1], u[0], 0 - u[3] >>), d |-> 1 ]

\* the projector product P(h(x)) U_dir(x) P(h(x+dir)), multiplied as complex matrices
C8_Product(l, f, i, dir) ==
    matmat(matmat(C8_Projector(projector(f.su2triplet[i])), C8_Link(f.su2link[i][dir]), 0),
           C8_Projector(projector(f.su2triplet[l.next[i][dir]])), 0)

\* C8: for every link and every pair of nonzero triplets at x and x+dir, the 8 numbers
\* written by project_u1 are the real and imaginary parts of the four entries of
\* P(h(x)) U_dir(x) P(h(x+dir)).
C8_ProjectorProduct ==
    build.TRIPLET =>
        \A i \in Sites(lat), dir \in Dirs(lat) :
            project_u1(lat, fld, i, dir) = C8_Product(lat, fld, i, dir)

\* the unordered pairs d1 < d2 of directions not containing dir
C9_Pairs(l, dir) ==
    {pr \in Dirs(l) \X Dirs(l) : pr[1] < pr[2] /\ dir \notin {pr[1], pr[2]}}

\* + when dir < d1 < d2, - when d1 < dir < d2, + when d1 < d2 < dir
C9_Sign(dir, d1, d2) == IF d1 < dir /\ dir < d2 THEN -1 ELSE 1

\* the angles alpha_proj(i, d1, d2) of the pairs in P, each with its sign, summed
C9_SignedSum(l, f, p, i, dir, P) ==
    SumOn([pr \in P |-> C9_Sign(dir, pr[1], pr[2])
                        * alpha_proj(l, f, p, i, pr[1], pr[2])], P)

\* C9: magfield(i, dir) visits every unordered pair {d1, d2} of directions not
\* containing dir exactly once with d1 < d2 and adds alpha_proj(i, d1, d2) with sign +
\* when dir < d1 < d2, - when d1 < dir < d2, + when d1 < d2 < dir; in D = 3,
\* B_0 = alpha_12, B_1 = -alpha_02, B_2 = alpha_01.
C9_SignRule ==
    mag.pc = "done" =>
        /\ \A pr \in C9_Pairs(lat, mag.dir) :
              Cardinality({v \in MagfieldLoop(lat, mag.dir) :
                              {v[1], v[2]} = {pr[1], pr[2]}}) = 1
        /\ mag.B = C9_SignedSum(lat, fld, params, mag.site, mag.dir,
                                C9_Pairs(lat, mag.dir))
        /\ (lat.dim = 3 /\ mag.dir = 0) =>
              mag.B = alpha_proj(lat, fld, params, mag.site, 1, 2)
        /\ (lat.dim = 3 /\ mag.dir = 1) =>
              mag.B = 0 - alpha_proj(lat, fld, params, mag.site, 0, 2)
        /\ (lat.dim = 3 /\ mag.dir = 2) =>
              mag.B = alpha_proj(lat, fld, params, mag.site, 0, 1)

\* four dimensions, dir = 1: nonzero angles in a pair d1 < dir < d2 and in a pair
\* dir < d1 < d2, and a field that is not the unsigned sum of the angles
C9_Witness ==
    /\ mag.pc = "done"
    /\ lat.dim = 4
    /\ mag.dir = 1
    /\ alpha_proj(lat, fld, params, mag.site, 0, 2) # 0
    /\ alpha_proj(lat, fld, params, mag.site, 2, 3) # 0
    /\ mag.B # alpha_proj(lat, fld, params, mag.site, 0, 2)
               + alpha_proj(lat, fld, params, mag.site, 0, 3)
               + alpha_proj(lat, fld, params, mag.site, 2, 3)

\* C10: magcharge_cube(i) is the sum over dir of magfield(next[i][dir], dir)
\* - magfield(i, dir), next[.][dir] is a bijection of the sites for every dir, and the
\* sum of magcharge_cube over all sites is exactly zero for every configuration.
C10_ZeroTotalCharge ==
    (build.TRIPLET /\ pc \in {"measured", "remeasured"}) =>
        /\ \A dir \in Dirs(lat) : {lat.next[i][dir] : i \in Sites(lat)} = Sites(lat)
        /\ \A i \in Sites(lat) :
              magcharge_cube(lat, fld, params, i)
              = SumOn([dir \in Dirs(lat) |->
                          magfield(lat, fld, params, lat.next[i][dir], dir)
                          - magfield(lat, fld, params, i, dir)], Dirs(lat))
        /\ meas.mag_charge = 0

\* a measured configuration with a cube of nonzero charge
C10_Witness ==
    /\ build.TRIPLET
    /\ pc = "measured"
    /\ meas.mag_charge = 0
    /\ \E i \in Sites(lat) : magcharge_cube(lat, fld, params, i) # 0

\* C11: on a periodic lattice the magnetic charge measure_local() stores for a site,
\* magcharge_cube(i) divided by 4 pi / g = 2 pi sqrt(betasu2), is an integer for every
\* site i (one unit for a cube holding a hedgehog).
C11_IntegerCharge ==
    (call.pc = "done" /\ call.fn = "measure_local") =>
        \A i \in Sites(lat) : call.res.magcharge[i].n % call.res.magcharge[i].d = 0
\* every link is the identity: the stored value is (unit, 0, 0, 0)
IdentityLinks(l, f) ==
    \A i \in Sites(l), dir \in Dirs(l) : f.su2link[i][dir] = Vec(<<f.unit, 0, 0, 0>>)

\* C12: when all links are the identity, smear_link(i, dir) writes exactly the
\* identity (1,0,0,0) into res, for every site, every dir and every smear_dir.
C12_IdentitySmear ==
    (call.pc = "done" /\ call.fn = "smear_link" /\ IdentityLinks(lat, fld)) =>
        /\ call.res.dsq > 0
        /\ call.res.m[0] > 0
        /\ call.res.m[0] * call.res.m[0] = call.res.dsq
        /\ \A k \in 1..(SU2LINK - 1) : call.res.m[k] = 0

\* identity links in halves smeared with two staple directions (five paths)
C12_Witness ==
    /\ call.pc = "done"
    /\ call.fn = "smear_link"
    /\ IdentityLinks(lat, fld)
    /\ fld.unit = 2
    /\ call.res.paths = 5
    /\ call.res.m = Vec(<<1600, 0, 0, 0>>)
\* the triplet b carried by the link u: components 1..3 of u.(0, b).u^+
C13_Forward(u, b) ==
    LET vec(r) == Vec(<<r[1], r[2], r[3]>>)
    IN vec(su2rot(su2rot(u, Vec(<<0, b[0], b[1], b[2]>>)), su2conj(u)))

\* the triplet b carried backwards by the link u: components 1..3 of u^+.(0, b).u
C13_Backward(u, b) ==
    LET vec(r) == Vec(<<r[1], r[2], r[3]>>)
    IN vec(su2rot(su2rot(su2conj(u), Vec(<<0, b[0], b[1], b[2]>>)), u))

\* triplet at i plus the forward and backward carried neighbours in the smeared directions
C13_Sum(l, f, S, i, k) ==
    f.unit * f.unit * f.su2triplet[i][k]
    + SumOn([dir \in S |->
               C13_Forward(f.su2link[i][dir], f.su2triplet[l.next[i][dir]])[k]
               + C13_Backward(f.su2link[l.prev[i][dir]][dir],
                              f.su2triplet[l.prev[i][dir]])[k]], S)

\* triplet at i plus its 2n neighbours in the smeared directions
C13_Neighbours(l, f, S, i, k) ==
    f.su2triplet[i][k]
    + SumOn([dir \in S |-> f.su2triplet[l.next[i][dir]][k]
                           + f.su2triplet[l.prev[i][dir]][k]], S)

\* C13: smear_triplet(i) returns (triplet at i + sum over the smeared directions of
\* the forward and the backward parallel-transported neighbour triplets) / (1 + 2n),
\* n the number of smeared directions; with identity links this is the arithmetic
\* mean of the triplet at i and its 2n neighbours; a zero field gives zero and a
\* constant field is returned unchanged.
C13_SmearedTriplet ==
    (call.pc = "done" /\ call.fn = "smear_triplet") =>
        LET S == SmearDirs(lat, call.smear_dir)
            n == Cardinality(SmearDirs(lat, call.smear_dir))
        IN /\ call.res.d = fld.unit * fld.unit * (1 + 2 * n)
           /\ \A k \in 0..(SU2TRIP - 1) :
                 call.res.m[k] = C13_Sum(lat, fld, S, call.i, k)
           /\ IdentityLinks(lat, fld) =>
                 \A k \in 0..(SU2TRIP - 1) :
                    call.res.m[k] * (1 + 2 * n)
                       = call.res.d * C13_Neighbours(lat, fld, S, call.i, k)
           /\ (\A j \in Sites(lat) : fld.su2triplet[j] = Vec(<<0, 0, 0>>)) =>
                 \A k \in 0..(SU2TRIP - 1) : call.res.m[k] = 0
           /\ (IdentityLinks(lat, fld)
               /\ \A j \in Sites(lat) : fld.su2triplet[j] = fld.su2triplet[0]) =>
                 \A k \in 0..(SU2TRIP - 1) :
                    call.res.m[k] = call.res.d * fld.su2triplet[0][k]

\* a hot triplet field smeared in two directions over links in halves that are not
\* all the identity, the result differing from the triplet at the site
C13_Witness ==
    /\ call.pc = "done"
    /\ call.fn = "smear_triplet"
    /\ fld.unit = 2
    /\ ~IdentityLinks(lat, fld)
    /\ Cardinality(SmearDirs(lat, call.smear_dir)) = 2
    /\ \E j \in Sites(lat) : fld.su2triplet[j] # fld.su2triplet[0]
    /\ \E k \in 0..(SU2TRIP - 1) :
          call.res.m[k] # call.res.d * fld.su2triplet[call.i][k]
\* every link has unit norm: su2sqr of the stored value is unit^2
UnitNormLinks(l, f) ==
    \A i \in Sites(l), dir \in Dirs(l) : su2sqr(f.su2link[i][dir]) = f.unit * f.unit

\* C14: for every configuration of unit-norm links, every site, dir and smear_dir,
\* the link written by smear_link has unit norm, su2sqr(res) = 1, including when
\* the weighted sum of link and staples vanishes.
C14_UnitNorm ==
    (call.pc = "done" /\ call.fn = "smear_link" /\ UnitNormLinks(lat, fld)) =>
        /\ call.res.dsq > 0
        /\ su2sqr(call.res.m) = call.res.dsq

\* C15: no routine stores to the field storage or to the neighbour map; a routine
\* stores only to its own local arrays and to the output buffer it was handed (a
\* buffer of the caller that was not handed over keeps its contents); su2rot and
\* matmat overwrite their first operand and leave the second as it was.
C15_FrameEffect ==
    [][ (pc = "mem" /\ call'.pc = "done") =>
            /\ fld' = fld
            /\ lat' = lat
            /\ call'.caller = CallerBufs["caller"]
            /\ (call'.fn \in {"su2rot", "matmat"} => call'.second = call'.secondOld) ]_vars

\* a plaquette of a hot start has been computed into the output buffer, and a
\* product has changed its first operand
C15_Witness ==
    /\ pc = "mem"
    /\ call.pc = "done"
    /\ call.fn = "su2plaquette"
    /\ fld # StartFields(lat, 0)
    /\ call.res \notin {CallerBufs["out"], Vec(<<1, 0, 0, 0>>)}

\* complex numbers and complex 2x2 matrices
CNum(re, im) == [re |-> re, im |-> im]
CAdd(x, y) == CNum(x.re + y.re, x.im + y.im)
CMul(x, y) == CNum(x.re * y.re - x.im * y.im, x.re * y.im + x.im * y.re)
CConj(x) == CNum(x.re, (-1) * x.im)
CMat(u) == [r \in 1..2 |-> [c \in 1..2 |-> CNum(u[4*(r-1) + 2*(c-1)], u[4*(r-1) + 2*(c-1) + 1])]]
CMatMul(A, B) == [r \in 1..2 |-> [c \in 1..2 |-> CAdd(CMul(A[r][1], B[1][c]), CMul(A[r][2], B[2][c]))]]
CMatDagger(A) == [r \in 1..2 |-> [c \in 1..2 |-> CConj(A[c][r])]]

TrDaggerSelf(u) ==
    CAdd(CMatMul(CMatDagger(CMat(u)), CMat(u))[1][1],
         CMatMul(CMatDagger(CMat(u)), CMat(u))[2][2])

C18_SingletInPotential ==
    (build.SINGLET /\ pc = "measured") =>
        \A i \in Sites(lat) :
            \E k \in 1..Len(SingletVals) :
                higgspotential([fld EXCEPT !.singlet[i] = Vec(<< SingletVals[k] >>)], params, i)
                    # higgspotential(fld, params, i)

\* the triplet vanishes at site x
ZeroTriplet(x) == fld.su2triplet[x] = Vec(<<0, 0, 0>>)

\* the triplet vanishes at a corner of the plaquette at i in the plane (d1, d2)
ZeroAtPlaquette(i, d1, d2) ==
    \/ ZeroTriplet(i)
    \/ ZeroTriplet(lat.next[i][d1])
    \/ ZeroTriplet(lat.next[i][d2])
    \/ ZeroTriplet(lat.next[lat.next[i][d1]][d2])

\* the triplet vanishes at a corner of a plaquette that magfield(i, dir) uses
ZeroAtMagfield(i, dir) ==
    \E d1 \in Dirs(lat), d2 \in Dirs(lat) :
        d1 # dir /\ d2 # dir /\ d1 # d2 /\ ZeroAtPlaquette(i, d1, d2)

\* C19: a zero triplet at x or x+dir is not caught: every entry of the projected link
\* of (x, dir) is NaN, alpha_proj is NaN for every plaquette containing such a link
\* (every plaquette with the zero site at a corner), magfield is NaN wherever it uses
\* such a plaquette, magcharge_cube is NaN for every site whose cube uses one, and
\* the sums mag_charge and mag_charge_abs of measure are NaN.
C19_ZeroTripletPropagates ==
    (pc = "nan" /\ call.pc = "done") =>
        /\ (call.fn = "project_u1"
              /\ (ZeroTriplet(call.i) \/ ZeroTriplet(lat.next[call.i][call.dir1])))
           => \A k \in 0..7 : call.nan[k]
        /\ (call.fn = "alpha_proj" /\ ZeroAtPlaquette(call.i, call.dir1, call.dir2))
           => call.nan
        /\ (call.fn = "magfield" /\ ZeroAtMagfield(call.i, call.dir1))
           => call.nan
        /\ (call.fn = "magcharge_cube"
              /\ \E dir \in Dirs(lat) : \/ ZeroAtMagfield(call.i, dir)
                                        \/ ZeroAtMagfield(lat.next[call.i][dir], dir))
           => call.nan
        /\ (call.fn = "measure"
              /\ \E i \in Sites(lat), dir \in Dirs(lat) : ZeroAtMagfield(i, dir))
           => call.nan.mag_charge /\ call.nan.mag_charge_abs

\* the magnetic charge of a cube that has the zero triplet at the corner opposite to
\* its site, on a lattice with three sites in direction 0
C19_Witness ==
    /\ pc = "nan"
    /\ call.pc = "done"
    /\ call.fn = "magcharge_cube"
    /\ lat.dim = 3
    /\ ~ZeroTriplet(call.i)
    /\ \A dir \in Dirs(lat) : ~ZeroTriplet(lat.next[call.i][dir])
    /\ ZeroTriplet(lat.next[lat.next[lat.next[call.i][0]][1]][2])
    /\ call.nan

\* C20: with a doublet active and no triplet, the staple V of su2link_staple(i, dir)
\* satisfies Tr[U_dir(i) V] = 2 (U_dir(i).V)[0] = localact_su2link(i, dir)
\* - 2 (D - 1) betasu2 at every site and direction of every configuration.
C20_StapleReproducesLocalAction ==
    (pc = "measured" /\ HIGGS /\ ~build.TRIPLET) =>
        \A i \in Sites(lat), dir \in Dirs(lat) :
            2 * su2rot(fld.su2link[i][dir], su2link_staple(lat, fld, params, i, dir))[0]
                = localact_su2link(lat, fld, params, i, dir)
                  - 2 * (lat.dim - 1) * params.betasu2

\* the configuration f with every scalar field replaced by another one
OtherScalars(l, f) ==
    [f EXCEPT !.su2doublet = [i \in Sites(l) |-> Vec(<<2, -2, 0, 4>>)],
              !.doublet2 = [i \in Sites(l) |-> Vec(<<0, 4, 2, -2>>)],
              !.su2triplet = [i \in Sites(l) |-> Vec(<<0, 6, 0>>)],
              !.singlet = [i \in Sites(l) |-> Vec(<<5>>)]]

\* sum over j # dir of the traces of the two plaquettes in the (dir, j) plane that
\* contain the link (i, dir)
C21_PlaquetteSum(l, f, i, dir) ==
    SumOn([j \in OtherDirs(l, dir) |->
              su2ptrace(l, f, i, dir, j) + su2ptrace(l, f, l.prev[i][j], dir, j)],
          OtherDirs(l, dir))

C22_ClosedForms ==
    (pc = "trace" /\ call.pc = "done") =>
        /\ call.fn = "su2trace4" =>
              call.res = 2 * su2rot(su2rot(su2rot(call.u[1], call.u[2]), su2conj(call.u[3])),
                                    su2conj(call.u[4]))[0]
        /\ call.fn = "su2ptrace" => call.res.trace = 2 * call.res.plaquette[0]
        /\ call.fn = "su2staple_counterwise" =>
              call.res = su2rot(su2rot(call.u[1], su2conj(call.u[2])), su2conj(call.u[3]))
        /\ call.fn = "su2staple_clockwise" =>
              call.res = su2rot(su2rot(su2conj(call.u[1]), su2conj(call.u[2])), call.u[3])

\* a clockwise staple of three vectors without zero components, different from the
\* counterwise staple of the same vectors
C22_Witness ==
    /\ pc = "trace"
    /\ call.pc = "done"
    /\ call.fn = "su2staple_clockwise"
    /\ call.u = << Vec(<<1, 2, -1, 3>>), Vec(<<2, -1, 1, 1>>), Vec(<<-1, 1, 2, -2>>) >>
    /\ call.res # su2staple_counterwise(call.u[1], call.u[2], call.u[3])

\* the ordered product of the links along a path from site x: a step <<d, 1>> goes
\* along U_d from the current site, a step <<d, -1>> goes back along U_d^+ of the
\* site before; the result is [u |-> the product, at |-> the site reached]
RECURSIVE PathProduct(_, _, _, _)
PathProduct(l, f, x, steps) ==
    IF steps = <<>> THEN [u |-> Vec(<<1, 0, 0, 0>>), at |-> x]
    ELSE LET d == Head(steps)[1]
             y == IF Head(steps)[2] = 1 THEN l.next[x][d] ELSE l.prev[x][d]
             link == IF Head(steps)[2] = 1 THEN f.su2link[x][d] ELSE su2conj(f.su2link[y][d])
             then(rest) == [u |-> su2rot(link, rest.u), at |-> rest.at]
         IN then(PathProduct(l, f, y, Tail(steps)))

\* the four loops around the corner x in the (d1, d2) plane: the cycle +d1, +d2,
\* -d1, -d2 entered at each of its four steps
C23_Loops(d1, d2) ==
    << << <<d1, 1>>, <<d2, 1>>, <<d1, -1>>, <<d2, -1>> >>,
       << <<d2, 1>>, <<d1, -1>>, <<d2, -1>>, <<d1, 1>> >>,
       << <<d1, -1>>, <<d2, -1>>, <<d1, 1>>, <<d2, 1>> >>,
       << <<d2, -1>>, <<d1, 1>>, <<d2, 1>>, <<d1, -1>> >> >>

\* C23: clover_su2(i, d1, d2) is the sum of four closed plaquette loops that start
\* and end at site i and run in the same sense in the (d1, d2) plane; its component 0
\* is 0.5 * [su2ptrace(x) + su2ptrace(x-d1) + su2ptrace(x-d1-d2) + su2ptrace(x-d2)];
\* with all links the identity the result is (4, 0, 0, 0).
C23_Clover ==
    (pc = "mem" /\ call.pc = "done" /\ call.fn = "clover_su2") =>
        LET i == call.args[1]
            d1 == call.args[2]
            d2 == call.args[3]
        IN /\ \A n \in 1..4 : PathProduct(lat, fld, i, C23_Loops(d1, d2)[n]).at = i
           /\ call.res = [k \in 0..(SU2LINK - 1) |->
                            SumOn([n \in 1..4 |->
                                      PathProduct(lat, fld, i, C23_Loops(d1, d2)[n]).u[k]],
                                  1..4)]
           /\ 2 * call.res[0] = su2ptrace(lat, fld, i, d1, d2)
                                + su2ptrace(lat, fld, lat.prev[i][d1], d1, d2)
                                + su2ptrace(lat, fld, lat.prev[lat.prev[i][d1]][d2], d1, d2)
                                + su2ptrace(lat, fld, lat.prev[i][d2], d1, d2)
           /\ AllIdentity(lat, fld) => call.res = Vec(<<4, 0, 0, 0>>)

\* the clover of a hot start on the lattice with three sites per direction (four
\* different plaquettes), with a nonvanishing vector part
C23_Witness ==
    /\ pc = "mem"
    /\ call.pc = "done"
    /\ call.fn = "clover_su2"
    /\ lat.L[0] = 3
    /\ ~AllIdentity(lat, fld)
    /\ call.res[0] \notin {4, -4}
    /\ \E k \in 1..3 : call.res[k] # 0

\* C24: hopping_trace_su2u1(phi1, u, phi2, a) is hopping_trace(phi1, u, phi2') with
\* phi2' = phi2 times the hypercharge phase as su2link_staple forms it,
\* (c b0 + s b3, c b1 + s b2, -s b1 + c b2, -s b0 + c b3); at a = 0 it is
\* hopping_trace(phi1, u, phi2); hopping_trace is component 0 of phi1^+.u.phi2.
C24_HyperchargePhase ==
    (pc = "trace" /\ call.pc = "done") =>
        /\ call.fn = "hopping_trace_su2u1" =>
              /\ call.res = hopping_trace(call.u[1], call.u[2],
                                          su2link_staple_hypercharge(call.u[3], call.u[4]))
              /\ call.u[4] = 0 => call.res = hopping_trace(call.u[1], call.u[2], call.u[3])
        /\ call.fn = "hopping_trace" =>
              call.res = su2rot(su2rot(su2conj(call.u[1]), call.u[2]), call.u[3])[0]

\* a hopping trace at a quarter turn that differs from the one without the phase
C24_Witness ==
    /\ pc = "trace"
    /\ call.pc = "done"
    /\ call.fn = "hopping_trace_su2u1"
    /\ call.u[4] = 1
    /\ \A k \in 0..3 : call.u[1][k] # 0 /\ call.u[2][k] # 0 /\ call.u[3][k] # 0
    /\ call.res # hopping_trace(call.u[1], call.u[2], call.u[3])

\* at site i every link U_dir(i) is the identity and every U(1) angle is zero
C25_TrivialLinks(i) ==
    \A dir \in Dirs(lat) :
        fld.su2link[i][dir] = Vec(<<1, 0, 0, 0>>) /\ (build.U1 => fld.u1link[i][dir] = 0)

\* C25: if every link U_dir(i) is the identity (and the U(1) angle zero) and the
\* scalar at next[i][dir] equals the scalar at i for every dir, covariant_doublet(i)
\* and covariant_triplet(i) are 0: the local term cancels the forward hopping terms.
C25_CovariantlyConstant ==
    (pc = "cov" /\ call.pc = "done" /\ C25_TrivialLinks(call.i)) =>
        /\ (call.fn = "covariant_doublet"
              /\ \A dir \in Dirs(lat) :
                    fld.su2doublet[lat.next[call.i][dir]] = fld.su2doublet[call.i])
           => call.res = 0
        /\ (call.fn = "covariant_triplet"
              /\ \A dir \in Dirs(lat) :
                    fld.su2triplet[lat.next[call.i][dir]] = fld.su2triplet[call.i])
           => call.res = 0

\* the derivative of a doublet with four nonzero components at a site where the
\* configuration is covariantly constant, while it is not so everywhere
C25_Witness ==
    /\ pc = "cov"
    /\ call.pc = "done"
    /\ call.fn = "covariant_doublet"
    /\ build.U1
    /\ C25_TrivialLinks(call.i)
    /\ \A dir \in Dirs(lat) : fld.su2doublet[lat.next[call.i][dir]] = fld.su2doublet[call.i]
    /\ fld.su2doublet[call.i] = Vec(<<1, -1, 2, -2>>)
    /\ \E z \in Sites(lat) : ~C25_TrivialLinks(z)
    /\ call.res = 0

\* C26: (R, I) is the real and imaginary part of a Hermitian inner product of the
\* two doublets: R(h1,h2) = R(h2,h1), I(h1,h2) = -I(h2,h1), R(h,h) = doubletsq(h),
\* I(h,h) = 0, R^2 + I^2 <= f11 * f22; and with a zero second doublet the potential
\* is msq_phi*f11 + lambda_phi*f11^2.
C26_HermitianProduct ==
    (pc = "pot" /\ call.pc = "done") =>
        LET h1 == fld.su2doublet[call.i]
            h2 == fld.doublet2[call.i]
        IN /\ call.R = Re_f12(h2, h1)
           /\ call.I = 0 - Im_f12(h2, h1)
           /\ Re_f12(h1, h1) = doubletsq(h1)
           /\ Im_f12(h1, h1) = 0
           /\ call.R * call.R + call.I * call.I <= call.f11 * call.f22
           /\ (h2 = Vec(<<0, 0, 0, 0>>)
                 => call.res = params.msq_phi * call.f11
                               + params.lambda_phi * call.f11 * call.f11)

\* two dense doublets with nonzero R and I, strictly inside the bound
C26_Witness ==
    /\ pc = "pot"
    /\ call.pc = "done"
    /\ \A k \in 0..(SU2DB - 1) :
          fld.su2doublet[call.i][k] # 0 /\ fld.doublet2[call.i][k] # 0
    /\ call.R # 0
    /\ call.I # 0
    /\ call.R * call.R + call.I * call.I < call.f11 * call.f22
    /\ call.res # params.msq_phi * call.f11 + params.lambda_phi * call.f11 * call.f11

\* the coordinate of site i is even in every blocked direction
C27_OnBlockedLattice(i) ==
    \A dir \in Dirs(lat) : call.block_dir[dir] # 0 => Coord(lat.L, i, dir) % 2 = 0

\* C27: smear_fields writes into f_b only at sites whose coordinate is even in
\* every blocked direction; there a link in a non-blocked direction and its U(1)
\* angle are copies from f, a link in a blocked direction is the smear_link result
\* and the triplet the smear_triplet result; the entries at the other sites and
\* all doublets of f_b stay as they were.
C27_SmearFieldsFrame ==
    (pc = "block" /\ call.pc = "done") =>
        LET old == BlockedBefore(lat)
        IN /\ call.f_b.su2doublet = old.su2doublet
           /\ call.f_b.doublet2 = old.doublet2
           /\ \A i \in Sites(lat) :
                IF C27_OnBlockedLattice(i)
                THEN /\ \A dir \in Dirs(lat) :
                          IF call.block_dir[dir] # 0
                          THEN call.f_b.su2link[i][dir]
                                  = smear_link(lat, fld, call.block_dir, i, dir)
                          ELSE /\ call.f_b.su2link[i][dir] = PlainLink(fld.su2link[i][dir])
                               /\ build.U1 => call.f_b.u1link[i][dir] = fld.u1link[i][dir]
                     /\ build.TRIPLET
                          => call.f_b.su2triplet[i] = smear_triplet(lat, fld, call.block_dir, i)
                ELSE /\ call.f_b.su2link[i] = old.su2link[i]
                     /\ call.f_b.u1link[i] = old.u1link[i]
                     /\ call.f_b.su2triplet[i] = old.su2triplet[i]

\* a hot configuration blocked in one direction only, with U(1) angles and
\* triplets: some sites are written (smeared and copied links), others skipped
C27_Witness ==
    /\ pc = "block"
    /\ call.pc = "done"
    /\ build.U1
    /\ build.TRIPLET
    /\ lat.dim = 2
    /\ call.block_dir = Vec(<<1, 0>>)
    /\ \E i \in Sites(lat), j \in Sites(lat) :
          /\ C27_OnBlockedLattice(i)
          /\ ~C27_OnBlockedLattice(j)
          /\ call.f_b.su2link[i][0] # BlockedBefore(lat).su2link[i][0]
          /\ call.f_b.su2link[i][1] = PlainLink(fld.su2link[i][1])
          /\ fld.su2link[i][1] # Vec(<<1, 0, 0, 0>>)
          /\ call.f_b.su2triplet[i] # BlockedBefore(lat).su2triplet[i]
          /\ call.f_b.su2link[j] = BlockedBefore(lat).su2link[j]

\* the quantity a label text describes, as the column expression of measure
C28_Describes(text) ==
    CASE text = "weight" -> Column("weight")
      [] text = "muca param" -> Column("muca_param")
      [] text = "action" -> Column("action")
      [] text = "SU(2) Wilson" -> Column("wilson/vol")
      [] text = "hopping_phi (avg over directions)" -> [expr |-> "hopping_phi/vol", db |-> 0]
      [] text = "phi^2" -> [expr |-> "phi2/vol", db |-> 0]
      [] text = "phi^4" -> [expr |-> "phi4/vol", db |-> 0]
      [] text = "hopping_phi2 (avg over directions)" -> [expr |-> "hopping_phi/vol", db |-> 1]
      [] text = "phi2^2" -> [expr |-> "phi2/vol", db |-> 1]
      [] text = "phi2^4" -> [expr |-> "phi4/vol", db |-> 1]
      [] text = "R = Re phi1^+ phi2" -> Column("phi12.re/vol")
      [] text = "I = Im phi1^+ phi2" -> Column("phi12.im/vol")
      [] text = "hopping_Sigma (avg over directions)" -> Column("hopping_Sigma/vol")
      [] text = "Sigma^2" -> Column("Sigma2/vol")
      [] text = "Sigma^4" -> Column("Sigma4/vol")
      [] text = "phi^2 Sigma^2" -> Column("phi2Sigma2/vol")
      [] text = "U(1) Wilson" -> Column("u1wilson/vol")
      [] text = "total magnetic charge density" -> Column("mag_charge")
      [] text = "number of magnetic monopoles" -> Column("mag_charge_abs")
      [] text = "S" -> Column("singlet")
      [] text = "S^2" -> Column("singlet2")
      [] text = "S^3" -> Column("singlet3")
      [] text = "S^4" -> Column("singlet4")
      [] text = "S phi^2" -> Column("Sphisq")
      [] text = "S^2 phi^2" -> Column("S2phisq")

\* C28: for every combination of the feature flags the line measure writes has as
\* many values as print_labels writes labels, in the same order: label k carries
\* the number k and describes column k.
C28_LabelsMatchColumns ==
    (pc = "out" /\ call.labelled /\ call.measured /\ call.rank = 0) =>
        /\ Len(call.line) = Len(call.labels)
        /\ \A k \in 1..Len(call.labels) :
              /\ call.labels[k].k = k
              /\ C28_Describes(call.labels[k].text) = call.line[k]

\* the build with two doublets, triplet, U(1) and singlet: 23 columns
C28_Witness ==
    /\ pc = "out"
    /\ call.labelled
    /\ call.measured
    /\ call.rank = 0
    /\ build.NHIGGS = 2
    /\ build.TRIPLET
    /\ build.U1
    /\ build.SINGLET
    /\ Len(call.line) = 23
    /\ call.labels[17].text = "U(1) Wilson"

\* the receives of rank 0 matched so far with messages of rank r, in the order of matching
RECURSIVE C29_MatchedFrom(_, _)
C29_MatchedFrom(log, r) ==
    IF log = <<>> THEN <<>>
    ELSE IF Head(log).src = r THEN << Head(log) >> \o C29_MatchedFrom(Tail(log), r)
    ELSE C29_MatchedFrom(Tail(log), r)

\* the j-th receive from rank r takes the j-th send of rank r, with the tag of both;
\* the ranks are served in rank order and no message is left over at the end
C29_Matched ==
    /\ \A r \in GatherRanks :
          LET log == C29_MatchedFrom(call.matched, r)
          IN /\ Len(log) <= Len(send_tags(build))
             /\ r = 0 => log = <<>>
             /\ \A j \in 1..Len(log) :
                   /\ log[j].n = j
                   /\ log[j].k = j
                   /\ log[j].tag = send_tags(build)[j]
                   /\ log[j].tag = j - 1
    /\ \A x \in 1..Len(call.matched) : \A y \in 1..Len(call.matched) :
          x < y => call.matched[x].src <= call.matched[y].src
    /\ call.rk[0].at = "done"
          => /\ \A r \in GatherRanks : call.net[r] = <<>>
             /\ Len(call.matched) = (call.R - 1) * Len(send_tags(build))

C29_Terminated == \A q \in GatherRanks : call.rk[q].at = "done"

\* the records written so far are those of rank 0, then of rank 1, ...: record
\* number r * sites + i carries the arrays and the offset of rank r at site i
\* (the arrays in the memory of rank r # 0, which nothing overwrites; at the end
\* the arrays are compared with the measurements on the fields of each rank)
C29_Written ==
    /\ Len(call.file) <= call.R * lat.sites
    /\ call.rk[0].at \in {"close", "done"} => Len(call.file) = call.R * lat.sites
    /\ \A r \in GatherRanks \ {0} :
          Len(call.file) >= (r + 1) * lat.sites
             => \A n \in 1..lat.sites :
                   call.file[r * lat.sites + n] = gather_records(lat, call.rk[r].mem)[n]
    /\ C29_Terminated
          => \A r \in GatherRanks :
                LET own(recs) == \A n \in 1..lat.sites : call.file[r * lat.sites + n] = recs[n]
                IN own(gather_records(lat,
                          [ coord_offset |-> RankOffset(lat, r),
                            Sigma2 |-> IF build.TRIPLET
                                       THEN measure_local(lat, StartFields(lat, RankSeed(call.seed, r)),
                                                          params).Sigma2
                                       ELSE <<>>,
                            magcharge |-> IF build.TRIPLET
                                          THEN measure_local(lat, StartFields(lat, RankSeed(call.seed, r)),
                                                             params).magcharge
                                          ELSE <<>> ]))

\* C29: in measure_local with R ranks every blocking send of a rank other than 0
\* (offset, Sigma2, magcharge with tags 0, 1, 2) is matched by exactly one receive
\* on rank 0 with the same source, tag and order; no state is a deadlock and the
\* gather terminates for every R >= 1; rank 0 writes R * sites records, its own
\* first and then those of the ranks 1..R-1 in rank order, each with the
\* measurements and the coordinate offset of its rank.
C29_Gather ==
    /\ [](pc = "gather"
            => /\ C29_Matched
               /\ C29_Written
               /\ (C29_Terminated \/ ENABLED NextGather))
    /\ <>(pc = "gather" => C29_Terminated)

\* three ranks with rendezvous sends have finished: 24 records, those of rank 1
\* differing from those of rank 0
C29_Witness ==
    /\ pc = "gather"
    /\ build.TRIPLET
    /\ call.R = 3
    /\ call.mode = "rendezvous"
    /\ C29_Terminated
    /\ Len(call.file) = 3 * lat.sites
    /\ Len(call.matched) = 6
    /\ \E n \in 1..lat.sites : call.file[lat.sites + n].meas # call.file[n].meas
    /\ call.file[lat.sites + 1].coords # call.file[1].coords

\* every entry of the matrix has its imaginary part equal to its real part
C30_ImagEqualsReal(u) == \A k \in 0..3 : u.m[2 * k + 1] = u.m[2 * k]

====
